---- MODULE Spec2Model ----
(***************************************************************************)
(* The chat query-resolution pipeline of backend/api: one turn of          *)
(* handle_chat_query_service (services/chat_service.py) together with the  *)
(* bounded executor with_timeout and execute_query (database/queries.py).  *)
(* Collaborators (agents, database, chat store) are the environment: each  *)
(* call completes, raises, or does not complete within its timeout.        *)
(* Beside the turn: delete_chat (controllers/chat_controller.py) with the  *)
(* existence check of a chat query, and update_alert and grafana_webhook   *)
(* (controllers/transaction_controller.py, services/transaction_service.py)*)
(***************************************************************************)
EXTENDS Integers, Sequences, FiniteSets, TLC

VARIABLES
    pc,                 \* position of the turn inside handle_chat_query_service
    request,            \* the ChatQueryRequest of the turn
    chat_id,            \* local chat_id
    message_history,    \* local message_history
    query_type,         \* local query_type
    sql_result,         \* local sql_result; sql_response is its data
    data,               \* local data (rows of the main query)
    summary_response,   \* local summary_response / simple_response
    summary_result,     \* local summary_result / simple_result (may be unbound)
    bar_chart_response, \* local bar_chart_response (may be unbound)
    chat_response,      \* local chat_response
    outcome,            \* what the caller of handle_chat_query_service gets
    eq,                 \* the running execute_query call
    open,               \* number of open transactions-db connections
    calls,              \* agent calls of the turn, in order
    executed,           \* statements sent to conn.fetch in the turn, in order
    writes,             \* update_chat_history calls of the turn, in order
    last_wt,            \* the last application of with_timeout
    session_ops,        \* calls on the chat store made at the start of the turn
    parked,             \* the locals of a second turn, suspended at an await
    repair,             \* a query under validate_and_fix_query, apart from any turn
    chat_store,         \* the chats in the database and in chat_message_cache
    del_call,           \* the running delete_chat call (chat_controller.py)
    lookup,             \* the last existence check of a query on an existing chat
    alert,              \* the running update_alert call
    chats_open,         \* number of open chats-db connections of update_alert_service
    hook                \* the running grafana_webhook call

vars == <<pc, request, chat_id, message_history, query_type, sql_result,
          data, summary_response, summary_result,
          bar_chart_response, chat_response, outcome, eq, open, calls,
          executed, writes, last_wt, session_ops, parked, repair,
          chat_store, del_call, lookup, alert, chats_open, hook>>

\* the state of the endpoints other than the chat query
endpoints == <<chat_store, del_call, lookup, alert, chats_open, hook>>

-----------------------------------------------------------------------------
(* Bounds and program constants *)

\* rows a statement can match in the transactions database
TableRows == 3

\* config.MAX_QUERY_RESULTS, the configured maximum; its value is set outside
\* these sources and a small one is taken
MAX_QUERY_RESULTS == 2

-----------------------------------------------------------------------------
(* Python strings: str.upper, str.lower, `in`, rstrip, str(int), slicing *)

Lowers == "abcdefghijklmnopqrstuvwxyz"
Uppers == "ABCDEFGHIJKLMNOPQRSTUVWXYZ"
Digits == "0123456789"

CharAt(s, i) == SubSeq(s, i, i)

IndexIn(alphabet, c) ==
    IF \E i \in 1..Len(alphabet) : CharAt(alphabet, i) = c
    THEN CHOOSE i \in 1..Len(alphabet) : CharAt(alphabet, i) = c
    ELSE 0

LowerChars == {CharAt(Lowers, i) : i \in 1..Len(Lowers)}
UpperChars == {CharAt(Uppers, i) : i \in 1..Len(Uppers)}
DigitChars == {CharAt(Digits, i) : i \in 1..Len(Digits)}

ToUpper == [c \in LowerChars |-> CharAt(Uppers, IndexIn(Lowers, c))]
ToLower == [c \in UpperChars |-> CharAt(Lowers, IndexIn(Uppers, c))]

UpperChar(c) == IF c \in LowerChars THEN ToUpper[c] ELSE c

LowerChar(c) == IF c \in UpperChars THEN ToLower[c] ELSE c

\* s.upper(), computed by halves
RECURSIVE Upper(_)
Upper(s) ==
    IF Len(s) = 0 THEN ""
    ELSE IF Len(s) = 1 THEN UpperChar(s)
    ELSE Upper(SubSeq(s, 1, Len(s) \div 2)) \o Upper(SubSeq(s, (Len(s) \div 2) + 1, Len(s)))

\* s.lower(), computed by halves
RECURSIVE Lower(_)
Lower(s) ==
    IF Len(s) = 0 THEN ""
    ELSE IF Len(s) = 1 THEN LowerChar(s)
    ELSE Lower(SubSeq(s, 1, Len(s) \div 2)) \o Lower(SubSeq(s, (Len(s) \div 2) + 1, Len(s)))

\* pat in s
Contains(s, pat) ==
    \E i \in 1..(Len(s) - Len(pat) + 1) : SubSeq(s, i, i + Len(pat) - 1) = pat

\* s.rstrip(ch)
RECURSIVE RStrip(_, _)
RStrip(s, ch) ==
    IF Len(s) > 0 /\ CharAt(s, Len(s)) = ch
    THEN RStrip(SubSeq(s, 1, Len(s) - 1), ch)
    ELSE s

\* str(n), n >= 0
RECURSIVE IntToStr(_)
IntToStr(n) ==
    IF n < 10 THEN CharAt(Digits, n + 1)
    ELSE IntToStr(n \div 10) \o CharAt(Digits, (n % 10) + 1)

\* int(s) for a string of digits
RECURSIVE StrToInt(_)
StrToInt(s) ==
    IF Len(s) = 0 THEN 0
    ELSE 10 * StrToInt(SubSeq(s, 1, Len(s) - 1)) + (IndexIn(Digits, CharAt(s, Len(s))) - 1)

IsDigits(s) == Len(s) > 0 /\ \A i \in 1..Len(s) : CharAt(s, i) \in DigitChars

\* s[:n]
Prefix(s, n) == SubSeq(s, 1, IF Len(s) < n THEN Len(s) ELSE n)

\* Python None in an optional string field
None == "None"

-----------------------------------------------------------------------------
(* Exceptions and the outcomes of awaited operations *)

NoExc == [type |-> "", status |-> 0, detail |-> ""]

HTTPException(status_code, detail) ==
    [type |-> "HTTPException", status |-> status_code, detail |-> detail]

\* any exception that is not an HTTPException: type is the Python class
PlainError(type, msg) == [type |-> type, status |-> 0, detail |-> msg]

\* str(e)
Str(e) ==
    IF e.type = "HTTPException" THEN IntToStr(e.status) \o ": " \o e.detail
    ELSE e.detail

\* an awaited operation completes with a value, raises, or does not complete
\* within the timeout it is given ("hang")
Ok(v) == [kind |-> "ok", value |-> <<v>>, exc |-> NoExc]
Raise(e) == [kind |-> "raise", value |-> <<>>, exc |-> e]
Hang == [kind |-> "hang", value |-> <<>>, exc |-> NoExc]

ValueOf(o) == o.value[1]

\* the except clause catching only the timeout of wait_for itself
with_timeout_own_only(coro, operation_name) ==
    IF coro.kind = "hang"
    THEN Raise(HTTPException(408, operation_name
               \o " timed out. Please try a simpler query or check your connection."))
    ELSE coro

\* asyncio.wait_for raises asyncio.TimeoutError when the operation does not
\* complete in time; the except clause catches every asyncio.TimeoutError
\* leaving wait_for, the operation's own included
with_timeout(coro, operation_name) ==
    IF coro.kind = "hang" \/ (coro.kind = "raise" /\ coro.exc.type = "TimeoutError")
    THEN Raise(HTTPException(408, operation_name
               \o " timed out. Please try a simpler query or check your connection."))
    ELSE coro

-----------------------------------------------------------------------------
(* execute_query (database/queries.py) *)

\* lines 61-63: the statement handed to conn.fetch
LimitedQuery(q) ==
    IF ~Contains(Upper(q), "LIMIT") /\ ~Contains(Upper(q), "COUNT")
    THEN RStrip(q, ";") \o " LIMIT " \o IntToStr(MAX_QUERY_RESULTS) \o ";"
    ELSE q

STALE_COLUMN_DETAIL ==
    "Query references a computed column from previous conversation. Please rephrase your question - I'll generate a fresh query with proper column references."

\* lines 75-91: the exception execute_query raises for an exception e raised
\* inside its try block
ExecuteQueryExcept(e) ==
    IF e.type = "TimeoutError"
    THEN HTTPException(408, "Database query timed out. Please try a simpler query.")
    ELSE LET error_msg == Str(e) IN
         IF /\ Contains(Lower(error_msg), "column")
            /\ Contains(Lower(error_msg), "does not exist")
            /\ \E computed_col \in {"final_status", "success_rate", "count"} :
                  Contains(Lower(error_msg), computed_col)
         THEN HTTPException(400, STALE_COLUMN_DETAIL)
         ELSE HTTPException(500, "Failed to execute query: " \o Str(e))

\* The row limit a statement carries: the number of its trailing LIMIT
\* clause, or -1 when it has none (what the database applies to the result)
RowLimit(q) ==
    LET u == Upper(RStrip(q, ";"))
        at == {i \in 1..Len(u) : /\ i + 7 <= Len(u)
                                 /\ SubSeq(u, i, i + 6) = " LIMIT "
                                 /\ IsDigits(SubSeq(u, i + 7, Len(u)))}
    IN IF at = {} THEN -1
       ELSE LET i == CHOOSE i \in at : TRUE IN StrToInt(SubSeq(u, i + 7, Len(u)))

\* a count-style aggregate: the statement calls COUNT(
IsCountAggregate(q) == Contains(Upper(q), "COUNT(")

Min(a, b) == IF a < b THEN a ELSE b

\* conn.fetch(q) on a statement matching n rows: rows 1..n, cut by the
\* statement's LIMIT clause
FetchRows(q, n) ==
    LET k == IF RowLimit(q) >= 0 THEN Min(n, RowLimit(q)) ELSE n
    IN [i \in 1..k |-> i]

\* messages of the database for a failed statement
STALE_COLUMN == "column \"final_status\" does not exist"

PgErrors == {STALE_COLUMN, "syntax error at or near \"FORM\""}

\* every way conn.fetch(q) can end
FetchOutcomes(q) ==
    {Ok(FetchRows(q, n)) : n \in 0..TableRows}
      \cup {Raise(PlainError("PostgresError", m)) : m \in PgErrors}
      \cup {Raise(PlainError("TimeoutError", "")), Hang}

\* every way get_transactions_db_connection() can end; the await of line 58
\* is not under with_timeout, so it may also never complete
ConnectOutcomes ==
    { Ok("conn"),
      Hang,
      Raise(PlainError("TimeoutError", "")),
      Raise(PlainError("OSError", "connection refused")) }

\* the execute_query call in progress: its position, its argument, the stage
\* of the turn that made it, whether conn is set, and what it will deliver
EqIdle ==
    [pc |-> "idle", sql_query |-> "", stage |-> "", conn |-> FALSE, pending |-> Hang]

EqCall(q, stage) ==
    [pc |-> "connect", sql_query |-> q, stage |-> stage, conn |-> FALSE, pending |-> Hang]

\* the finally clause skipped when the call is raising
OpenAfterFinally_leak(q, n) == IF q.conn /\ q.pending.kind = "ok" THEN n - 1 ELSE n

\* lines 92-98: connections open after the finally clause
OpenAfterFinally(q, n) == IF q.conn THEN n - 1 ELSE n

-----------------------------------------------------------------------------
(* re.sub as validate_and_fix_query uses it: case-insensitive patterns,     *)
(* leftmost match, backtracking in priority order, \g references            *)

IsWordChar(c) == c \in LowerChars \cup UpperChars \cup DigitChars \cup {"_"}

IsSpace(c) == c \in {" ", "\t", "\n", "\r", "\f"}

\* the character classes of the patterns
InClass(c, cls) ==
    CASE cls = "space"    -> IsSpace(c)
      [] cls = "notcomma" -> c # ","
      [] cls = "cmp"      -> c \in {">", "<", "="}
      [] cls = "quote"    -> c \in {"'", "\""}
      [] cls = "word"     -> IsWordChar(c)
      [] cls = "notcolon" -> c # ":"

\* pattern elements; a pattern is a sequence of them
Elem(t, str, cls, min, lazy, g) ==
    [t |-> t, s |-> str, cls |-> cls, min |-> min, lazy |-> lazy, g |-> g]
Lit(str) == Elem("lit", Upper(str), "", 0, FALSE, 0)     \* literal text, any case
Star(cls) == Elem("rep", "", cls, 0, FALSE, 0)           \* [cls]*
Plus(cls) == Elem("rep", "", cls, 1, FALSE, 0)           \* [cls]+
LazyPlus(cls) == Elem("rep", "", cls, 1, TRUE, 0)        \* [cls]+?
One(cls) == Elem("one", "", cls, 1, FALSE, 0)            \* [cls]
Open(g) == Elem("open", "", "", 0, FALSE, g)             \* ( of group g
Close(g) == Elem("close", "", "", 0, FALSE, g)           \* ) of group g
WordB == Elem("wb", "", "", 0, FALSE, 0)                 \* \b
LookEnd == Elem("look", "", "", 0, FALSE, 0)             \* (?=\s|$|;|\))
NotAhead(str) == Elem("notahead", str, "", 0, FALSE, 0)  \* (?!str)

NoCaps == [g \in 1..2 |-> <<0, 0>>]
NoMatch == [ok |-> FALSE, end |-> 0, caps |-> NoCaps]

\* number of consecutive characters of class cls in s from position pos
RunLength(s, pos, cls) ==
    LET stop == {i \in pos..Len(s) : ~InClass(CharAt(s, i), cls)}
    IN IF stop = {} THEN Len(s) - pos + 1
       ELSE (CHOOSE i \in stop : \A j \in stop : i <= j) - pos

WordAt(s, i) == i >= 1 /\ i <= Len(s) /\ IsWordChar(CharAt(s, i))

RECURSIVE Match(_, _, _, _, _)
RECURSIVE TryGreedy(_, _, _, _, _, _)
RECURSIVE TryLazy(_, _, _, _, _, _, _)
RECURSIVE Continues(_, _, _, _, _, _, _)

\* elements k.. of pat matched against s from position pos: the first match
\* in backtracking order
Match(pat, k, s, pos, caps) ==
    IF k > Len(pat) THEN [ok |-> TRUE, end |-> pos, caps |-> caps]
    ELSE LET e == pat[k] IN
      CASE e.t = "lit" ->
             IF /\ pos + Len(e.s) - 1 <= Len(s)
                /\ UpperChar(CharAt(s, pos)) = CharAt(e.s, 1)
                /\ Upper(SubSeq(s, pos, pos + Len(e.s) - 1)) = e.s
             THEN Match(pat, k + 1, s, pos + Len(e.s), caps)
             ELSE NoMatch
        [] e.t = "one" ->
             IF pos <= Len(s) /\ InClass(CharAt(s, pos), e.cls)
             THEN Match(pat, k + 1, s, pos + 1, caps)
             ELSE NoMatch
        [] e.t = "rep" ->
             IF e.lazy
             THEN TryLazy(pat, k, s, pos, caps, e.min, RunLength(s, pos, e.cls))
             ELSE TryGreedy(pat, k, s, pos, caps, RunLength(s, pos, e.cls))
        [] e.t = "open" ->
             Match(pat, k + 1, s, pos, [caps EXCEPT ![e.g] = <<pos, pos>>])
        [] e.t = "close" ->
             Match(pat, k + 1, s, pos, [caps EXCEPT ![e.g] = <<caps[e.g][1], pos>>])
        [] e.t = "wb" ->
             IF WordAt(s, pos - 1) # WordAt(s, pos)
             THEN Match(pat, k + 1, s, pos, caps)
             ELSE NoMatch
        [] e.t = "look" ->
             IF \/ pos > Len(s)
                \/ (pos = Len(s) /\ CharAt(s, pos) = "\n")
                \/ IsSpace(CharAt(s, pos))
                \/ CharAt(s, pos) \in {";", ")"}
             THEN Match(pat, k + 1, s, pos, caps)
             ELSE NoMatch
        [] e.t = "notahead" ->
             IF /\ pos + Len(e.s) - 1 <= Len(s)
                /\ SubSeq(s, pos, pos + Len(e.s) - 1) = e.s
             THEN NoMatch
             ELSE Match(pat, k + 1, s, pos, caps)

\* the run lengths in lo..hi of repetition k after which the rest matches
Continues(pat, k, s, pos, caps, lo, hi) ==
    {n \in lo..hi : Match(pat, k + 1, s, pos + n, caps).ok}

\* a greedy repetition: the longest run the rest of the pattern accepts
TryGreedy(pat, k, s, pos, caps, m) ==
    LET ns == Continues(pat, k, s, pos, caps, pat[k].min, m)
    IN IF ns = {} THEN NoMatch
       ELSE Match(pat, k + 1, s, pos + (CHOOSE n \in ns : \A j \in ns : j <= n), caps)

\* a lazy repetition: the shortest run the rest of the pattern accepts
TryLazy(pat, k, s, pos, caps, lo, m) ==
    LET ns == Continues(pat, k, s, pos, caps, lo, m)
    IN IF ns = {} THEN NoMatch
       ELSE Match(pat, k + 1, s, pos + (CHOOSE n \in ns : \A j \in ns : n <= j), caps)

\* alts: the alternatives of one pattern in priority order ((X)?Y is XY, Y)
RECURSIVE MatchAt(_, _, _, _)
MatchAt(alts, a, s, pos) ==
    IF a > Len(alts) THEN NoMatch
    ELSE LET r == Match(alts[a], 1, s, pos, NoCaps) IN
         IF r.ok THEN r ELSE MatchAt(alts, a + 1, s, pos)

\* replacement templates: literal text and \g references
Text(str) == [ref |-> 0, lit |-> str]
Ref(g) == [ref |-> g, lit |-> ""]

RECURSIVE Expand(_, _, _, _)
Expand(repl, j, s, caps) ==
    IF j > Len(repl) THEN ""
    ELSE (IF repl[j].ref = 0 THEN repl[j].lit
          ELSE SubSeq(s, caps[repl[j].ref][1], caps[repl[j].ref][2] - 1))
         \o Expand(repl, j + 1, s, caps)

\* re.sub(pattern, replacement, s, flags=re.IGNORECASE) from position pos on
RECURSIVE SubFrom(_, _, _, _)
SubFrom(alts, repl, s, pos) ==
    LET starts == {i \in pos..Len(s) : MatchAt(alts, 1, s, i).ok}
    IN IF starts = {} THEN SubSeq(s, pos, Len(s))
       ELSE LET i == CHOOSE i \in starts : \A j \in starts : i <= j
                r == MatchAt(alts, 1, s, i)
            IN SubSeq(s, pos, i - 1) \o Expand(repl, 1, s, r.caps)
                 \o SubFrom(alts, repl, s, r.end)

ReSub(rule, s) == SubFrom(rule.alts, rule.repl, s, 1)

-----------------------------------------------------------------------------
(* validate_and_fix_query (database/queries.py lines 18-52) *)

\* the replacement templates are raw strings: each \' stays backslash, quote
CASE_EXPR ==
    "CASE WHEN event_type = \\'SettlementConfirmed\\' THEN \\'SUCCESSFUL\\' ELSE \\'FAILED\\' END"

Rule(alts, repl) == [alts |-> alts, repl |-> repl]

\* lines 23-37
common_fixes ==
    << Rule(<< <<Lit("SELECT"), Plus("space"), Open(1), Star("notcomma"), Lit(","),
                 Star("space"), Close(1), Lit("final_status"), WordB>>,
               <<Lit("SELECT"), Plus("space"), Lit("final_status"), WordB>> >>,
            <<Text("SELECT "), Ref(1), Text(CASE_EXPR \o " as final_status")>>),
       Rule(<< <<Lit("WHERE"), Plus("space"), Lit("final_status"), Star("space"), Lit("="),
                 Star("space"), One("quote"), Open(1), Plus("word"), Close(1), One("quote")>> >>,
            <<Text("WHERE (" \o CASE_EXPR \o ") = \\'"), Ref(1), Text("\\'")>>),
       Rule(<< <<Lit("ORDER BY"), Plus("space"), Lit("final_status"), WordB>> >>,
            <<Text("ORDER BY (" \o CASE_EXPR \o ")")>>),
       Rule(<< <<Lit("WHERE"), Plus("space"), Lit("success_rate"), Star("space"), One("cmp")>> >>,
            <<Text("WHERE (SELECT success_rate FROM transaction_summary)")>>),
       Rule(<< <<Lit("WHERE"), Plus("space"), Lit("count"), Star("space"), One("cmp")>> >>,
            <<Text("WHERE transaction_count")>>),
       Rule(<< <<Lit("FROM"), Plus("space"), Lit("transaction_summary"), WordB>> >>,
            <<Text("FROM (WITH latest_events AS (SELECT *, ROW_NUMBER() OVER (PARTITION BY transaction_id ORDER BY timestamp::timestamptz DESC) as rn FROM transactions) SELECT COUNT(*) as total_transactions FROM latest_events WHERE rn = 1) as transaction_summary")>>) >>

\* the ORDER BY and GROUP BY patterns of lines 45-46 without (?!::)
timestamp_fixes_any_cast ==
    << Rule(<< <<WordB, Lit("timestamp"), Star("space"), Open(1), Plus("cmp"), Close(1),
                 Star("space"), Open(2), LazyPlus("notcolon"), Close(2), LookEnd>> >>,
            <<Text("timestamp::timestamptz "), Ref(1), Text(" "), Ref(2)>>),
       Rule(<< <<Lit("ORDER BY"), Plus("space"), Lit("timestamp"), WordB>> >>,
            <<Text("ORDER BY timestamp::timestamptz")>>),
       Rule(<< <<Lit("GROUP BY"), Plus("space"), Lit("timestamp"), WordB>> >>,
            <<Text("GROUP BY timestamp::timestamptz")>>) >>

\* lines 43-47
timestamp_fixes ==
    << Rule(<< <<WordB, Lit("timestamp"), Star("space"), Open(1), Plus("cmp"), Close(1),
                 Star("space"), Open(2), LazyPlus("notcolon"), Close(2), LookEnd>> >>,
            <<Text("timestamp::timestamptz "), Ref(1), Text(" "), Ref(2)>>),
       Rule(<< <<Lit("ORDER BY"), Plus("space"), Lit("timestamp"), WordB, NotAhead("::")>> >>,
            <<Text("ORDER BY timestamp::timestamptz")>>),
       Rule(<< <<Lit("GROUP BY"), Plus("space"), Lit("timestamp"), WordB, NotAhead("::")>> >>,
            <<Text("GROUP BY timestamp::timestamptz")>>) >>

\* lines 39-40 and 49-50: the rules applied in order
RECURSIVE ApplyFixes(_, _, _)
ApplyFixes(fixes, j, fixed_query) ==
    IF j > Len(fixes) THEN fixed_query
    ELSE ApplyFixes(fixes, j + 1, ReSub(fixes[j], fixed_query))

validate_and_fix_query(q) ==
    ApplyFixes(timestamp_fixes, 1, ApplyFixes(common_fixes, 1, q))

-----------------------------------------------------------------------------
(* Agents (ai/agents.py): opaque; a run returns a result carrying data and  *)
(* all_messages(), the history it was given followed by its own messages   *)

\* the message a run adds to the conversation: who answered and, for an
\* answer that is a statement, the statement
Message(agent, d) ==
    IF "sql_query" \in DOMAIN d THEN agent \o ": " \o d.sql_query ELSE agent

AgentResult(d, history, agent) ==
    [data |-> d, messages |-> history \o <<Message(agent, d)>>]

NoSqlResult == [data |-> [sql_query |-> ""], messages |-> <<>>]

AgentFailures ==
    { Hang,
      Raise(PlainError("AgentError", "model failure")),
      Raise(PlainError("TimeoutError", "")) }

AgentOutcomes(datas, history, agent) ==
    {Ok(AgentResult(d, history, agent)) : d \in datas} \cup AgentFailures

\* how a bounded call ended, as its caller sees it
CallKind(r) ==
    IF r.kind = "ok" THEN "ok"
    ELSE IF r.exc.type = "HTTPException" /\ r.exc.status = 408 THEN "timeout"
    ELSE "error"

\* statements the SQL agent and the chart agent produce
SqlTexts ==
    { "SELECT * FROM transactions",
      "SELECT * FROM transactions LIMIT 3;",
      "SELECT * FROM transactions WHERE tx_status = 'limit_exceeded'",
      "SELECT final_status, COUNT(*) FROM transactions GROUP BY timestamp;" }

\* DataSummaryResponse values
SummaryData(summary, key_insights, recommendation) ==
    [summary |-> summary, key_insights |-> key_insights,
     recommendation |-> recommendation, transaction_status |-> None]

NoSummary == SummaryData("", <<>>, None)

AgentSummaries == {SummaryData("The data shows settled transactions.", <<"insight">>, "none needed")}

\* chat_service.py lines 169-174
NoDataSummary ==
    SummaryData("No data found matching the query criteria.",
                <<"No transactions found for the specified criteria">>,
                "Try adjusting search parameters or check transaction IDs")

\* chat_service.py lines 183-188
SummaryTimeoutFallback(rows) ==
    SummaryData("Query executed successfully. Retrieved " \o IntToStr(Len(rows)) \o " records.",
                <<"Found " \o IntToStr(Len(rows)) \o " matching records">>,
                "Data retrieved successfully. Summary generation timed out.")

\* chat_service.py lines 286-291
SimpleTimeoutFallback ==
    SummaryData("I'm here to help with your payment and transaction questions. Could you please rephrase your question?",
                <<"Response generation timed out">>,
                "Please try asking your question again or be more specific.")

\* bar_chart_response: unbound, None, or the dict made of the agent's data
ChartDict(chart_possible, modified_sql) ==
    [tag |-> "dict", chart_possible |-> chart_possible, modified_sql |-> modified_sql,
     has_chart_data |-> FALSE, chart_data |-> <<>>, chart_data_error |-> None]

ChartUnbound == [ChartDict(FALSE, None) EXCEPT !.tag = "unbound"]
ChartNone == [ChartDict(FALSE, None) EXCEPT !.tag = "none"]

\* statements the chart agent produces as modified_sql
ChartTexts == {"SELECT * FROM transactions ORDER BY timestamp"}

ChartDatas ==
    {ChartNone, ChartDict(FALSE, None), ChartDict(TRUE, None)}
      \cup {ChartDict(TRUE, q) : q \in ChartTexts}

CompactDatas == {[summary |-> "Listed transactions.", metadata |-> "{}"]}

\* the prompts of the agent calls; of each f-string the parts that vary with
\* the turn are kept, its fixed instructions are shortened

\* chat_service.py lines 56-60: augmented_query
AugmentedQuery(req) ==
    "User Query: " \o req.query \o " Available Dataset Columns: [...] Please generate a PostgreSQL query to answer this question."

\* lines 108-115 and 177: the prompt of the summary call
DataContext(req, rows) ==
    IF rows # <<>>
    THEN "Original Query: " \o req.query \o " Retrieved Data (" \o IntToStr(Len(rows))
           \o " rows) Total rows: " \o IntToStr(Len(rows))
    ELSE "No data found for the query."

\* lines 126-129: bar_chart_context
BarChartContext(req, sql) == "User Query: " \o req.query \o " SQL Query: " \o sql

\* lines 212-221: response_context
ResponseContext(req, sql, summary, n) ==
    "User Query: " \o req.query \o " SQL Query: " \o sql \o " Data Summary: "
      \o summary.summary \o " Records Found: " \o IntToStr(n) \o " Success: True"

\* lines 269-275: simple_context
SimpleContext(req) ==
    "User Query: " \o req.query \o " This is a simple conversational query that doesn't require database analysis."

-----------------------------------------------------------------------------
(* ChatResponse and the exits of handle_chat_query_service *)

ChatResponse(success, cid, query, sql, rows, summary, insights, recommendation, response_summary, record_count, bar_chart) ==
    [success |-> success, chat_id |-> cid, query |-> query, sql_query |-> sql,
     data |-> rows, summary |-> summary, insights |-> insights,
     recommendation |-> recommendation, response_summary |-> response_summary,
     record_count |-> record_count, bar_chart |-> bar_chart]

NoResponse == ChatResponse(FALSE, "", "", "", <<>>, "", <<>>, None, None, -1, ChartNone)

\* sql_query left empty in the response
SuccessResponse_no_sql(cid, req, sql, rows, summary, chart) ==
    ChatResponse(TRUE, cid, req.query, "", rows, summary.summary,
                 summary.key_insights, summary.recommendation, None,
                 Len(rows),
                 IF chart.tag = "dict" THEN chart ELSE ChartNone)

\* record_count written as a fixed number instead of len(data)
SuccessResponse_fixed_count(cid, req, sql, rows, summary, chart) ==
    ChatResponse(TRUE, cid, req.query, sql, rows, summary.summary,
                 summary.key_insights, summary.recommendation, None,
                 MAX_QUERY_RESULTS,
                 IF chart.tag = "dict" THEN chart ELSE ChartNone)

\* chat_service.py lines 195-208
SuccessResponse(cid, req, sql, rows, summary, chart) ==
    ChatResponse(TRUE, cid, req.query, sql, rows, summary.summary,
                 summary.key_insights, summary.recommendation, None,
                 Len(rows),
                 IF chart.tag = "dict" THEN chart ELSE ChartNone)

\* chat_service.py lines 297-310
SimpleResponse(cid, req, simple_response) ==
    ChatResponse(TRUE, cid, req.query, "", <<>>, simple_response.summary,
                 simple_response.key_insights, simple_response.recommendation,
                 None, 0, ChartNone)

\* chat_service.py lines 252-265
FailureResponse(req, e) ==
    ChatResponse(FALSE, IF req.chat_id \notin {None, ""} THEN req.chat_id ELSE "unknown",
                 req.query, "", <<>>, "Error: " \o Str(e), <<>>, None, None, 0, ChartNone)

\* chat_service.py lines 353-366
SimpleFailureResponse(cid, req, e) ==
    ChatResponse(FALSE, cid, req.query, "", <<>>,
                 "Error handling simple query: " \o Str(e), <<>>, None, None, 0, ChartNone)

NoOutcome == [kind |-> "none", response |-> NoResponse, exc |-> NoExc]
Returned(resp) == [kind |-> "returned", response |-> resp, exc |-> NoExc]
Raised(e) == [kind |-> "raised", response |-> NoResponse, exc |-> e]

\* every exception converted to a failure response
TurnExcept_catch_all(req, e) == Returned(FailureResponse(req, e))

\* chat_service.py lines 247-265: the except clauses closing the turn
TurnExcept(req, e) ==
    IF e.type = "HTTPException" THEN Raised(e) ELSE Returned(FailureResponse(req, e))

\* every exception of the simple path raised to the caller
SimpleExcept_raise(cid, req, e) == Raised(e)

\* chat_service.py lines 348-366: the except clauses closing the simple path
SimpleExcept(cid, req, e) ==
    IF e.type = "HTTPException" THEN Raised(e)
    ELSE Returned(SimpleFailureResponse(cid, req, e))

-----------------------------------------------------------------------------
(* The turn: handle_chat_query_service and handle_simple_llm_query_service *)

Requests ==
    { [chat_type |-> "new", chat_id |-> None, query |-> "show transactions"],
      [chat_type |-> "existing", chat_id |-> None, query |-> "show transactions"],
      [chat_type |-> "existing", chat_id |-> "c1", query |-> "show transactions"] }

\* what load_chat_messages_from_db can return
Histories == {<<>>, <<"earlier">>}

\* create_new_chat()
NEW_CHAT_ID == "c-new"

NoRequest == [chat_type |-> "new", chat_id |-> None, query |-> ""]
Unbound == [bound |-> FALSE, messages |-> <<>>]
Bound(result) == [bound |-> TRUE, messages |-> result.messages]
NotApplied == [applied |-> FALSE, coro |-> Hang, operation_name |-> "", result |-> Hang]
Applied(coro, operation_name, r) ==
    [applied |-> TRUE, coro |-> coro, operation_name |-> operation_name, result |-> r]
\* the statement in the data of an agent's answer: sql_query of the SQL
\* agent, modified_sql of the chart agent
SqlOf(r) ==
    IF r.kind # "ok" THEN None
    ELSE LET d == ValueOf(r).data IN
         IF "sql_query" \in DOMAIN d THEN d.sql_query
         ELSE IF "modified_sql" \in DOMAIN d THEN d.modified_sql
         ELSE None

\* one agent.run: the agent, the stage that called it, the prompt and the
\* message_history it was given, how it ended and the statement it returned
Call(agent, stage, prompt, history, r) ==
    [agent |-> agent, stage |-> stage, prompt |-> prompt, history |-> history,
     result |-> CallKind(r), sql |-> SqlOf(r)]

sql_response == sql_result.data

\* the argument of validate_and_fix_query, its result, and the result of
\* applying the function to that result
RepairIdle == [pc |-> "idle", sql_query |-> "", fixed |-> "", refixed |-> ""]

\* the locals of a turn that has not begun
IdleTurn ==
    [pc |-> "idle", request |-> NoRequest, chat_id |-> "", message_history |-> <<>>,
     query_type |-> "", sql_result |-> NoSqlResult, data |-> <<>>,
     summary_response |-> NoSummary, summary_result |-> Unbound,
     bar_chart_response |-> ChartUnbound, chat_response |-> NoResponse,
     outcome |-> NoOutcome, eq |-> EqIdle, calls |-> <<>>, executed |-> <<>>,
     writes |-> <<>>, last_wt |-> NotApplied, session_ops |-> <<>>]

\* ApiResponse (models/schemas.py): data and error default to None
ApiResponse(success, message, response_data, error) ==
    [success |-> success, message |-> message, data |-> response_data, error |-> error]

NoApiResponse == ApiResponse(FALSE, "", None, None)

\* the chat store when the process starts: chat c1 is persisted, the cache
\* is empty, nothing has been deleted through delete_chat
StoreAtStart == [db |-> {"c1"}, cache |-> {}, deleted |-> {}]

DeleteIdle == [pc |-> "idle", chat_id |-> "", response |-> NoApiResponse]

NoLookup == [chat_id |-> "", ops |-> <<>>, end |-> Hang]

AlertIdle == [pc |-> "idle", alert_id |-> "", conn |-> FALSE, response |-> NoApiResponse]

NoWebhook == [state |-> "", message |-> ""]

HookIdle ==
    [pc |-> "idle", request |-> NoWebhook, transaction_details |-> None, ops |-> <<>>,
     simple_response |-> NoSummary, outcome |-> Hang, response |-> NoApiResponse]

Init ==
    /\ pc = "idle"
    /\ request = NoRequest
    /\ chat_id = ""
    /\ message_history = <<>>
    /\ query_type = ""
    /\ sql_result = NoSqlResult
    /\ data = <<>>
    /\ summary_response = NoSummary
    /\ summary_result = Unbound
    /\ bar_chart_response = ChartUnbound
    /\ chat_response = NoResponse
    /\ outcome = NoOutcome
    /\ eq = EqIdle
    /\ open = 0
    /\ calls = <<>>
    /\ executed = <<>>
    /\ writes = <<>>
    /\ last_wt = NotApplied
    /\ session_ops = <<>>
    /\ parked = IdleTurn
    /\ repair = RepairIdle
    /\ chat_store = StoreAtStart
    /\ del_call = DeleteIdle
    /\ lookup = NoLookup
    /\ alert = AlertIdle
    /\ chats_open = 0
    /\ hook = HookIdle

\* chat/manager.py is called at lines 23, 32 and 36; the awaits of lines 32
\* and 36 are not under with_timeout: they return, raise, or never complete
STORE_ERROR == PlainError("StoreError", "chat store unavailable")

ExistsOutcomes == {Ok(TRUE), Ok(FALSE), Raise(STORE_ERROR), Hang}

LoadOutcomes == {Ok(h) : h \in Histories} \cup {Raise(STORE_ERROR), Hang}

StoreOp(op, cid, kind) == [op |-> op, chat_id |-> cid, result |-> kind]

\* the history loaded whether or not the chat was found
ExistingSession_load_anyway(cid, in_db, in_cache, load) ==
    LET asked == <<StoreOp("chat_exists_in_db", cid, in_db.kind)>>
        cached == Append(asked, StoreOp("chat_message_cache", cid,
                                        IF in_cache THEN "found" ELSE "absent"))
    IN IF in_db.kind # "ok" THEN [ops |-> asked, end |-> in_db]
       ELSE LET looked == IF ValueOf(in_db) THEN asked ELSE cached
            IN [ops |-> Append(looked, StoreOp("load_chat_messages_from_db", cid, load.kind)),
                end |-> load]

\* lines 29-36 for an existing chat: the calls made on the chat store, in
\* order, and how the lookup ends (the history, an exception, or no end);
\* in_cache is `chat_id in chat_message_cache`, evaluated only when
\* chat_exists_in_db answered False
ExistingSession(cid, in_db, in_cache, load) ==
    LET asked == <<StoreOp("chat_exists_in_db", cid, in_db.kind)>>
        cached == Append(asked, StoreOp("chat_message_cache", cid,
                                        IF in_cache THEN "found" ELSE "absent"))
    IN IF in_db.kind # "ok" THEN [ops |-> asked, end |-> in_db]
       ELSE LET looked == IF ValueOf(in_db) THEN asked ELSE cached
                chat_exists == ValueOf(in_db) \/ in_cache
            IN IF ~chat_exists
               THEN [ops |-> looked,
                     end |-> Raise(HTTPException(404, "Chat " \o cid \o " not found"))]
               ELSE [ops |-> Append(looked, StoreOp("load_chat_messages_from_db", cid, load.kind)),
                     end |-> load]

\* lines 22-36: chat_id, the calls made on the chat store and how the session
\* setup ends, for a request and the answers of the chat store
Session(req, in_db, in_cache, load) ==
    IF req.chat_type = "new"
    THEN [request |-> req, chat_id |-> NEW_CHAT_ID,
          ops |-> <<StoreOp("create_new_chat", NEW_CHAT_ID, "ok")>>, end |-> Ok(<<>>)]
    ELSE IF req.chat_id \in {None, ""}
    THEN [request |-> req, chat_id |-> "", ops |-> <<>>,
          end |-> Raise(HTTPException(400, "chat_id is required when chat_type is 'existing'"))]
    ELSE LET s == ExistingSession(req.chat_id, in_db, in_cache, load) IN
         [request |-> req, chat_id |-> req.chat_id, ops |-> s.ops, end |-> s.end]

\* every way lines 22-36 can go
Sessions ==
    {Session(req, in_db, in_cache, load) :
        req \in Requests, in_db \in ExistsOutcomes, in_cache \in BOOLEAN, load \in LoadOutcomes}

\* lines 18-36: a request arrives; the session is created or looked up
StartTurn ==
    /\ pc \in {"idle", "done"}
    /\ \E s \in Sessions :
         /\ request' = s.request
         /\ chat_id' = s.chat_id
         /\ session_ops' = s.ops
         /\ message_history' = IF s.end.kind = "ok" THEN ValueOf(s.end) ELSE <<>>
         /\ outcome' = IF s.end.kind = "raise" THEN TurnExcept(s.request, s.end.exc)
                       ELSE NoOutcome
         /\ pc' = IF s.end.kind = "ok" THEN "classify"
                  ELSE IF s.end.kind = "raise" THEN "done"
                  ELSE "hung"
    /\ query_type' = ""
    /\ sql_result' = NoSqlResult
    /\ data' = <<>>
    /\ summary_response' = NoSummary
    /\ summary_result' = Unbound
    /\ bar_chart_response' = ChartUnbound
    /\ chat_response' = NoResponse
    /\ eq' = EqIdle
    /\ calls' = <<>>
    /\ executed' = <<>>
    /\ writes' = <<>>
    /\ last_wt' = NotApplied
    /\ UNCHANGED open
    /\ UNCHANGED <<parked, repair, endpoints>>

\* the handlers of lines 45-51 falling back to "simple"
QueryTypeOf_simple(r) ==
    IF r.kind = "ok" THEN ValueOf(r).data.query_type ELSE "simple"

\* lines 38-51: the query type, or "raise" when the exception is re-raised
QueryTypeOf(r) ==
    IF r.kind = "ok" THEN ValueOf(r).data.query_type
    ELSE IF r.exc.type = "HTTPException"
         THEN (IF r.exc.status = 408 THEN "sql" ELSE "raise")
         ELSE "sql"

\* lines 38-54
Classify ==
    /\ pc = "classify"
    /\ \E coro \in AgentOutcomes({[query_type |-> t] : t \in {"simple", "sql"}},
                                 message_history, "query_type_agent") :
         LET r == with_timeout(coro, "Query type classification")
             qt == QueryTypeOf(r)
         IN /\ last_wt' = Applied(coro, "Query type classification", r)
            /\ calls' = Append(calls, Call("query_type_agent", "classify", request.query, message_history, r))
            /\ IF qt = "raise"
               THEN /\ outcome' = TurnExcept(request, r.exc)
                    /\ pc' = "done"
                    /\ UNCHANGED query_type
               ELSE /\ query_type' = qt
                    /\ pc' = IF qt = "simple" THEN "simple" ELSE "sql_gen"
                    /\ UNCHANGED outcome
    /\ UNCHANGED <<request, chat_id, message_history, sql_result, data, summary_response,
                   summary_result, bar_chart_response, chat_response, eq, open,
                   executed, writes>>
    /\ UNCHANGED <<session_ops, parked, repair, endpoints>>

\* the handler of lines 75-81 re-raising whatever it caught
SqlGenerationExcept_reraise(e) == e

\* lines 75-81: what the SQL-generation handler raises for e
SqlGenerationExcept(e) ==
    IF e.type = "HTTPException" /\ e.status = 408
    THEN HTTPException(408, "AI query generation timed out. Please try a simpler question.")
    ELSE e

SqlDatas == {[sql_query |-> q] : q \in SqlTexts}

\* lines 56-90: generation, repair, and the call of execute_query
SqlGenerate ==
    /\ pc = "sql_gen"
    /\ \E coro \in AgentOutcomes(SqlDatas, message_history, "sql_agent") :
         LET r == with_timeout(coro, "SQL generation") IN
         /\ last_wt' = Applied(coro, "SQL generation", r)
         /\ calls' = Append(calls, Call("sql_agent", "sql_gen", AugmentedQuery(request),
                                      message_history, r))
         /\ IF r.kind = "ok"
            THEN LET validated_query == validate_and_fix_query(ValueOf(r).data.sql_query) IN
                 /\ sql_result' = [ValueOf(r) EXCEPT !.data.sql_query = validated_query]
                 /\ eq' = EqCall(validated_query, "execute")
                 /\ pc' = "execute"
                 /\ UNCHANGED outcome
            ELSE /\ outcome' = TurnExcept(request, SqlGenerationExcept(r.exc))
                 /\ pc' = "done"
                 /\ UNCHANGED <<sql_result, eq>>
    /\ UNCHANGED <<request, chat_id, message_history, query_type, data, summary_response,
                   summary_result, bar_chart_response, chat_response, open,
                   executed, writes>>
    /\ UNCHANGED <<session_ops, parked, repair, endpoints>>

\* queries.py lines 56-58 and 75-91: the connection is acquired, or the
\* failure to acquire it is converted
ExecuteQueryConnect ==
    /\ eq.pc = "connect"
    /\ \E o \in ConnectOutcomes :
         IF o.kind = "ok"
         THEN /\ eq' = [eq EXCEPT !.pc = "fetch", !.conn = TRUE]
              /\ open' = open + 1
         ELSE IF o.kind = "hang"
         THEN /\ eq' = [eq EXCEPT !.pc = "hung"]
              /\ UNCHANGED open
         ELSE /\ eq' = [eq EXCEPT !.pc = "finally",
                                  !.pending = Raise(ExecuteQueryExcept(o.exc))]
              /\ UNCHANGED open
    /\ UNCHANGED <<pc, request, chat_id, message_history, query_type, sql_result, data,
                   summary_response, summary_result, bar_chart_response, chat_response,
                   outcome, calls, executed, writes, last_wt>>
    /\ UNCHANGED <<session_ops, parked, repair, endpoints>>

\* queries.py lines 60-91: the statement is limited and fetched under the
\* timeout; rows are returned or the exception is converted
ExecuteQueryFetch ==
    /\ eq.pc = "fetch"
    /\ LET limited_query == LimitedQuery(eq.sql_query) IN
       \E coro \in FetchOutcomes(limited_query) :
         LET r == with_timeout(coro, "Database query execution") IN
         /\ last_wt' = Applied(coro, "Database query execution", r)
         /\ executed' = Append(executed, [sql |-> limited_query, given |-> eq.sql_query,
                                          stage |-> eq.stage, fetch |-> coro])
         /\ eq' = [eq EXCEPT !.pc = "finally",
                             !.pending = IF r.kind = "ok" THEN Ok(ValueOf(r))
                                         ELSE Raise(ExecuteQueryExcept(r.exc))]
    /\ UNCHANGED <<pc, request, chat_id, message_history, query_type, sql_result, data,
                   summary_response, summary_result, bar_chart_response, chat_response,
                   outcome, open, calls, writes>>
    /\ UNCHANGED <<session_ops, parked, repair, endpoints>>

\* queries.py lines 92-98: the finally clause, then the call returns or raises
ExecuteQueryFinally ==
    /\ eq.pc = "finally"
    /\ open' = OpenAfterFinally(eq, open)
    /\ eq' = [eq EXCEPT !.pc = "exit"]
    /\ UNCHANGED <<pc, request, chat_id, message_history, query_type, sql_result, data,
                   summary_response, summary_result, bar_chart_response, chat_response,
                   outcome, calls, executed, writes, last_wt>>
    /\ UNCHANGED <<session_ops, parked, repair, endpoints>>

\* chat_service.py line 92
IsStaleColumn(e) == e.status = 400 /\ Contains(e.detail, "computed column")

\* every 400 of execute_query retried, whatever the turn already did
AfterMainQuery_always_retry(o, first) ==
    IF o.kind = "ok" THEN "summary"
    ELSE IF IsStaleColumn(o.exc) THEN "fresh_gen"
    ELSE "raise"

\* lines 89-104: where the turn goes when an execution of the main query ends
\* with o; first is FALSE for the re-execution inside the handler
AfterMainQuery(o, first) ==
    IF o.kind = "ok" THEN "summary"
    ELSE IF first /\ IsStaleColumn(o.exc) THEN "fresh_gen"
    ELSE "raise"

\* lines 89-92 and 103-104: the first execution of the main query has ended
AfterExecute ==
    /\ pc = "execute"
    /\ eq.pc = "exit"
    /\ eq' = EqIdle
    /\ LET next == AfterMainQuery(eq.pending, TRUE) IN
       /\ pc' = IF next = "raise" THEN "done" ELSE next
       /\ data' = IF next = "summary" THEN ValueOf(eq.pending) ELSE data
       /\ outcome' = IF next = "raise" THEN TurnExcept(request, eq.pending.exc) ELSE outcome
    /\ UNCHANGED <<request, chat_id, message_history, query_type, sql_result,
                   summary_response, summary_result, bar_chart_response, chat_response,
                   open, calls, executed, writes, last_wt>>
    /\ UNCHANGED <<session_ops, parked, repair, endpoints>>

\* the regeneration given the history of the turn
FreshHistory_kept(history) == history

\* lines 93-97: the message_history of the regeneration call, which passes
\* none, in a turn that began with history
FreshHistory(history) == <<>>

\* lines 93-101: one regeneration without history, repaired and executed
FreshGenerate ==
    /\ pc = "fresh_gen"
    /\ \E coro \in AgentOutcomes(SqlDatas, FreshHistory(message_history), "sql_agent") :
         LET r == with_timeout(coro, "Fresh SQL generation") IN
         /\ last_wt' = Applied(coro, "Fresh SQL generation", r)
         /\ calls' = Append(calls, Call("sql_agent", "fresh_gen", AugmentedQuery(request),
                                      FreshHistory(message_history), r))
         /\ IF r.kind = "ok"
            THEN LET fresh_validated_query ==
                         validate_and_fix_query(ValueOf(r).data.sql_query) IN
                 /\ eq' = EqCall(fresh_validated_query, "re_execute")
                 /\ pc' = "re_execute"
                 /\ UNCHANGED outcome
            ELSE /\ outcome' = TurnExcept(request, r.exc)
                 /\ pc' = "done"
                 /\ UNCHANGED eq
    /\ UNCHANGED <<request, chat_id, message_history, query_type, sql_result, data,
                   summary_response, summary_result, bar_chart_response, chat_response,
                   open, executed, writes>>
    /\ UNCHANGED <<session_ops, parked, repair, endpoints>>

\* lines 101-102: the re-execution has ended; its failure is not handled again
AfterReExecute ==
    /\ pc = "re_execute"
    /\ eq.pc = "exit"
    /\ eq' = EqIdle
    /\ LET next == AfterMainQuery(eq.pending, FALSE) IN
       IF next = "summary"
       THEN /\ data' = ValueOf(eq.pending)
            /\ sql_result' = [sql_result EXCEPT !.data.sql_query = eq.sql_query]
            /\ pc' = "summary"
            /\ UNCHANGED outcome
       ELSE IF next = "raise"
       THEN /\ outcome' = TurnExcept(request, eq.pending.exc)
            /\ pc' = "done"
            /\ UNCHANGED <<data, sql_result>>
       ELSE /\ pc' = next
            /\ UNCHANGED <<data, sql_result, outcome>>
    /\ UNCHANGED <<request, chat_id, message_history, query_type,
                   summary_response, summary_result, bar_chart_response, chat_response,
                   open, calls, executed, writes, last_wt>>
    /\ UNCHANGED <<session_ops, parked, repair, endpoints>>

\* lines 106-123 and 168-191: summary_response after the summary call ended
\* with r, or raise when the exception leaves the stage
SummaryOf(r, rows) ==
    IF r.kind = "ok"
    THEN [raise |-> FALSE, summary |-> IF rows # <<>> THEN ValueOf(r).data ELSE NoDataSummary]
    ELSE IF r.exc.type = "HTTPException" /\ r.exc.status = 408
    THEN [raise |-> FALSE, summary |-> SummaryTimeoutFallback(rows)]
    ELSE [raise |-> TRUE, summary |-> NoSummary]

\* lines 106-123 and 168-191: the summary agent is called with the messages
\* of sql_result, for rows and for no rows alike
\* chart analysis entered however the summary call ended
AfterSummary_always_chart(r, rows) == "chart"

\* lines 107-136 and 168-191: the chart analysis follows the summary call only
\* inside the branch of a non-empty result, when the call returned
AfterSummary(r, rows) == IF r.kind = "ok" /\ rows # <<>> THEN "chart" ELSE "build"

Summarize ==
    /\ pc = "summary"
    /\ \E coro \in AgentOutcomes(AgentSummaries, sql_result.messages, "summary_agent") :
         LET r == with_timeout(coro, "AI summary generation")
             sm == SummaryOf(r, data)
         IN /\ last_wt' = Applied(coro, "AI summary generation", r)
            /\ calls' = Append(calls, Call("summary_agent", "summary", DataContext(request, data),
                                         sql_result.messages, r))
            /\ IF sm.raise
               THEN /\ outcome' = TurnExcept(request, r.exc)
                    /\ pc' = "done"
                    /\ UNCHANGED <<summary_response, summary_result>>
               ELSE /\ summary_response' = sm.summary
                    /\ summary_result' = IF r.kind = "ok" THEN Bound(ValueOf(r))
                                         ELSE Bound(sql_result)
                    /\ pc' = AfterSummary(r, data)
                    /\ UNCHANGED outcome
    /\ UNCHANGED <<request, chat_id, message_history, query_type, sql_result, data,
                   bar_chart_response, chat_response, eq, open, executed, writes>>
    /\ UNCHANGED <<session_ops, parked, repair, endpoints>>

\* lines 146-149
ChartQueryWanted(chart) ==
    /\ chart.tag = "dict"
    /\ chart.chart_possible
    /\ chart.modified_sql \notin {None, ""}

\* the handler of lines 165-167 without the assignment of None
ChartOf_unassigned(r) == IF r.kind = "ok" THEN ValueOf(r).data ELSE ChartUnbound

\* lines 136-144 and 165-167: bar_chart_response after the chart call ended
\* with r
ChartOf(r) == IF r.kind = "ok" THEN ValueOf(r).data ELSE ChartNone

\* lines 124-153 and 165-167: the chart agent is asked; its failure leaves
\* None; a chartable answer with a query has the query repaired and executed
\* the chart statement executed as the agent wrote it
validated_chart_query_raw(chart) == chart.modified_sql

\* line 152: the chart statement is repaired before it is executed
validated_chart_query(chart) == validate_and_fix_query(chart.modified_sql)

ChartAnalyze ==
    /\ pc = "chart"
    /\ \E coro \in AgentOutcomes(ChartDatas, <<>>, "bar_chart_agent") :
         LET r == with_timeout(coro, "Bar chart analysis") IN
         /\ last_wt' = Applied(coro, "Bar chart analysis", r)
         /\ calls' = Append(calls, Call("bar_chart_agent", "chart",
                                      BarChartContext(request, sql_response.sql_query), <<>>, r))
         /\ bar_chart_response' = ChartOf(r)
         /\ IF r.kind # "ok"
            THEN /\ pc' = "build"
                 /\ UNCHANGED eq
            ELSE /\ IF ChartQueryWanted(ValueOf(r).data)
                    THEN /\ eq' = EqCall(validated_chart_query(ValueOf(r).data), "chart_exec")
                         /\ pc' = "chart_exec"
                    ELSE /\ pc' = "build"
                         /\ UNCHANGED eq
    /\ UNCHANGED <<request, chat_id, message_history, query_type, sql_result, data,
                   summary_response, summary_result, chat_response, outcome, open,
                   executed, writes>>
    /\ UNCHANGED <<session_ops, parked, repair, endpoints>>

\* chart_data stored before the outcome of the chart query is known
WithChartResult_both(chart, o) ==
    IF o.kind = "ok"
    THEN [chart EXCEPT !.has_chart_data = TRUE, !.chart_data = ValueOf(o)]
    ELSE [chart EXCEPT !.has_chart_data = TRUE, !.chart_data_error = Str(o.exc)]

\* lines 153-163: the dict with the chart rows, or with the error text
WithChartResult(chart, o) ==
    IF o.kind = "ok"
    THEN [chart EXCEPT !.has_chart_data = TRUE, !.chart_data = ValueOf(o)]
    ELSE [chart EXCEPT !.chart_data_error = Str(o.exc)]

\* lines 153-163: the chart rows or the error text are added to the dict
AfterChartExecute ==
    /\ pc = "chart_exec"
    /\ eq.pc = "exit"
    /\ eq' = EqIdle
    /\ bar_chart_response' = WithChartResult(bar_chart_response, eq.pending)
    /\ pc' = "build"
    /\ UNCHANGED <<request, chat_id, message_history, query_type, sql_result, data,
                   summary_response, summary_result, chat_response, outcome, open,
                   calls, executed, writes, last_wt>>
    /\ UNCHANGED <<session_ops, parked, repair, endpoints>>

UNBOUND_CHART ==
    PlainError("UnboundLocalError",
               "cannot access local variable 'bar_chart_response' where it is not associated with a value")

\* lines 193-208: bar_chart_response is read (line 194) and the response built
BuildResponse ==
    /\ pc = "build"
    /\ IF bar_chart_response.tag = "unbound"
       THEN /\ outcome' = TurnExcept(request, UNBOUND_CHART)
            /\ pc' = "done"
            /\ UNCHANGED chat_response
       ELSE /\ chat_response' = SuccessResponse(chat_id, request, sql_response.sql_query,
                                                data, summary_response, bar_chart_response)
            /\ pc' = "compact"
            /\ UNCHANGED outcome
    /\ UNCHANGED <<request, chat_id, message_history, query_type, sql_result, data,
                   summary_response, summary_result, bar_chart_response, eq, open,
                   calls, executed, writes, last_wt>>
    /\ UNCHANGED <<session_ops, parked, repair, endpoints>>

\* the handlers of lines 229-235 leaving response_summary as it was set at
\* line 210
ResponseSummaryOf_unset(r, summary) ==
    IF r.kind = "ok"
    THEN ValueOf(r).data.summary \o " " \o ValueOf(r).data.metadata
    ELSE None

\* lines 228-235 and 329-336: response_summary after the compaction call
ResponseSummaryOf(r, summary) ==
    IF r.kind = "ok"
    THEN ValueOf(r).data.summary \o " " \o ValueOf(r).data.metadata
    ELSE IF r.exc.type = "HTTPException"
    THEN (IF r.exc.status = 408
          THEN "Summary: " \o Prefix(summary, 100) \o "... (Summary generation timed out)"
          ELSE "Summary generation failed: " \o Str(r.exc))
    ELSE "Summary generation error: " \o Str(r.exc)

\* lines 210-237
Compact ==
    /\ pc = "compact"
    /\ \E coro \in AgentOutcomes(CompactDatas, <<>>, "response_summary_agent") :
         LET r == with_timeout(coro, "Response summary generation") IN
         /\ last_wt' = Applied(coro, "Response summary generation", r)
         /\ calls' = Append(calls, Call("response_summary_agent", "compact",
                                      ResponseContext(request, sql_response.sql_query,
                                                      summary_response, Len(data)),
                                      <<>>, r))
         /\ chat_response' = [chat_response EXCEPT
                                !.response_summary = ResponseSummaryOf(r, summary_response.summary)]
    /\ pc' = "persist"
    /\ UNCHANGED <<request, chat_id, message_history, query_type, sql_result, data,
                   summary_response, summary_result, bar_chart_response, outcome, eq,
                   open, executed, writes>>
    /\ UNCHANGED <<session_ops, parked, repair, endpoints>>

\* update_chat_history returns, raises, or never completes (the await of
\* lines 241 and 342 is not under with_timeout)
WriteOutcomes == {"ok", "raise", "hang"}

\* the write repeated after it failed
AfterWrite_retry(w, resp, out) ==
    IF w = "hang" THEN [pc |-> "hung", outcome |-> out]
    ELSE IF w = "raise" THEN [pc |-> "persist", outcome |-> out]
    ELSE [pc |-> "done", outcome |-> Returned(resp)]

\* the failure of the write reported to the caller
AfterWrite_propagate(w, resp, out) ==
    IF w = "hang" THEN [pc |-> "hung", outcome |-> out]
    ELSE IF w = "raise" THEN [pc |-> "done", outcome |-> Raised(STORE_ERROR)]
    ELSE [pc |-> "done", outcome |-> Returned(resp)]

\* lines 239-245 and 340-346: where the turn is after update_chat_history
\* ended with w, and what its caller has; out is what the caller had before
AfterWrite(w, resp, out) ==
    IF w = "hang" THEN [pc |-> "hung", outcome |-> out]
    ELSE [pc |-> "done", outcome |-> Returned(resp)]

\* the write addressed with the id the request carried
HistoryWrite_request_id(cid, req, all_messages, resp, w) ==
    [chat_id |-> IF req.chat_id \notin {None, ""} THEN req.chat_id ELSE "unknown",
     all_messages |-> all_messages, query |-> req.query,
     response_summary |-> resp.response_summary, result |-> w]

\* lines 241 and 342: update_chat_history(chat_id, all_messages,
\* request.query, chat_response.dict(), response_summary) ending with w
HistoryWrite(cid, req, all_messages, resp, w) ==
    [chat_id |-> cid, all_messages |-> all_messages, query |-> req.query,
     response_summary |-> resp.response_summary, result |-> w]

\* lines 239-245: the history is replaced, a failure to do so is ignored,
\* and the response is returned
Persist ==
    /\ pc = "persist"
    /\ \E w \in WriteOutcomes :
         /\ writes' = Append(writes,
                     HistoryWrite(chat_id, request,
                                  IF summary_result.bound THEN summary_result.messages
                                  ELSE sql_result.messages,
                                  chat_response, w))
         /\ pc' = AfterWrite(w, chat_response, outcome).pc
         /\ outcome' = AfterWrite(w, chat_response, outcome).outcome
    /\ UNCHANGED <<request, chat_id, message_history, query_type, sql_result, data,
                   summary_response, summary_result, bar_chart_response, chat_response,
                   eq, open, calls, executed, last_wt>>
    /\ UNCHANGED <<session_ops, parked, repair, endpoints>>

\* lines 267-310 and 348-366: the simple path answers with the summary agent
SimpleRespond ==
    /\ pc = "simple"
    /\ \E coro \in AgentOutcomes(AgentSummaries, message_history, "summary_agent") :
         LET r == with_timeout(coro, "Simple query response generation") IN
         /\ last_wt' = Applied(coro, "Simple query response generation", r)
         /\ calls' = Append(calls, Call("summary_agent", "simple", SimpleContext(request),
                                      message_history, r))
         /\ IF r.kind = "ok" \/ CallKind(r) = "timeout"
            THEN LET simple_response == IF r.kind = "ok" THEN ValueOf(r).data
                                        ELSE SimpleTimeoutFallback IN
                 /\ summary_response' = simple_response
                 /\ summary_result' = IF r.kind = "ok" THEN Bound(ValueOf(r)) ELSE Unbound
                 /\ chat_response' = SimpleResponse(chat_id, request, simple_response)
                 /\ pc' = "simple_compact"
                 /\ UNCHANGED outcome
            ELSE /\ outcome' = SimpleExcept(chat_id, request, r.exc)
                 /\ pc' = "done"
                 /\ UNCHANGED <<summary_response, summary_result, chat_response>>
    /\ UNCHANGED <<request, chat_id, message_history, query_type, sql_result, data,
                   bar_chart_response, eq, open, executed, writes>>
    /\ UNCHANGED <<session_ops, parked, repair, endpoints>>

\* lines 312-338
SimpleCompact ==
    /\ pc = "simple_compact"
    /\ \E coro \in AgentOutcomes(CompactDatas, <<>>, "response_summary_agent") :
         LET r == with_timeout(coro, "Response summary generation") IN
         /\ last_wt' = Applied(coro, "Response summary generation", r)
         /\ calls' = Append(calls, Call("response_summary_agent", "simple_compact",
                                      "User Query: " \o request.query
                                        \o " Query Type: Simple conversational query (no SQL needed) Response Summary: "
                                        \o summary_response.summary \o " Success: True",
                                      <<>>, r))
         /\ chat_response' = [chat_response EXCEPT
                                !.response_summary = ResponseSummaryOf(r, summary_response.summary)]
    /\ pc' = "simple_persist"
    /\ UNCHANGED <<request, chat_id, message_history, query_type, sql_result, data,
                   summary_response, summary_result, bar_chart_response, outcome, eq,
                   open, executed, writes>>
    /\ UNCHANGED <<session_ops, parked, repair, endpoints>>

\* lines 340-346
SimplePersist ==
    /\ pc = "simple_persist"
    /\ \E w \in WriteOutcomes :
         /\ writes' = Append(writes,
                     HistoryWrite(chat_id, request,
                                  IF summary_result.bound THEN summary_result.messages
                                  ELSE <<>>,
                                  chat_response, w))
         /\ pc' = AfterWrite(w, chat_response, outcome).pc
         /\ outcome' = AfterWrite(w, chat_response, outcome).outcome
    /\ UNCHANGED <<request, chat_id, message_history, query_type, sql_result, data,
                   summary_response, summary_result, bar_chart_response, chat_response,
                   eq, open, calls, executed, last_wt>>
    /\ UNCHANGED <<session_ops, parked, repair, endpoints>>

Next ==
    \/ StartTurn
    \/ Classify
    \/ SqlGenerate
    \/ ExecuteQueryConnect
    \/ ExecuteQueryFetch
    \/ ExecuteQueryFinally
    \/ AfterExecute
    \/ FreshGenerate
    \/ AfterReExecute
    \/ Summarize
    \/ ChartAnalyze
    \/ AfterChartExecute
    \/ BuildResponse
    \/ Compact
    \/ Persist
    \/ SimpleRespond
    \/ SimpleCompact
    \/ SimplePersist

Spec == Init /\ [][Next]_vars

-----------------------------------------------------------------------------
(* validate_and_fix_query on its own: a query is given, repaired, and the   *)
(* repaired query is repaired again                                          *)

\* queries given to validate_and_fix_query: a SELECT list, a FROM clause, a
\* WHERE clause and an ordering, each with and without text the patterns of
\* lines 25-36 and 44-46 look for
RepairInputs ==
    LET SelectLists == {"SELECT *", "SELECT final_status", "SELECT final_status, final_status"}
        FromClauses == {" FROM transactions", " FROM transaction_summary"}
        WhereClauses == { "",
                          " WHERE final_status = 'FAILED'",
                          " WHERE success_rate > 90",
                          " WHERE count > 5",
                          " WHERE timestamp >= '2024-01-01'",
                          " WHERE timestamp::timestamptz >= '2024-01-01'" }
        OrderClauses == { "",
                          " ORDER BY timestamp",
                          " ORDER BY timestamp::timestamptz DESC",
                          " GROUP BY timestamp" }
    IN {sel \o frm \o whr \o ord : sel \in SelectLists, frm \in FromClauses,
                                   whr \in WhereClauses, ord \in OrderClauses}

TurnUnchanged ==
    UNCHANGED <<pc, request, chat_id, message_history, query_type, sql_result, data,
                summary_response, summary_result, bar_chart_response, chat_response,
                outcome, eq, open, calls, executed, writes, last_wt, session_ops, parked,
                endpoints>>

\* a query is handed to validate_and_fix_query
RepairGiven ==
    /\ \E q \in RepairInputs :
         repair' = [pc |-> "given", sql_query |-> q, fixed |-> "", refixed |-> ""]
    /\ TurnUnchanged

\* queries.py lines 18-52
RepairOnce ==
    /\ repair.pc = "given"
    /\ repair' = [repair EXCEPT !.pc = "once",
                                !.fixed = validate_and_fix_query(repair.sql_query)]
    /\ TurnUnchanged

\* queries.py lines 18-52, applied to the repaired query
RepairTwice ==
    /\ repair.pc = "once"
    /\ repair' = [repair EXCEPT !.pc = "twice",
                                !.refixed = validate_and_fix_query(repair.fixed)]
    /\ TurnUnchanged

RepairNext ==
    \/ RepairGiven
    \/ RepairOnce
    \/ RepairTwice

RepairSpec == Init /\ [][RepairNext]_vars

-----------------------------------------------------------------------------
(* Two turns on distinct chats, run by one event loop: a turn runs from an  *)
(* await to the next, and the loop may resume the other turn in between.   *)
(* The turn variables hold the locals of the turn that runs, parked those  *)
(* of the other one; open is shared, and so is the chat store.             *)

\* the locals of the turn that runs
Locals ==
    [pc |-> pc, request |-> request, chat_id |-> chat_id,
     message_history |-> message_history, query_type |-> query_type,
     sql_result |-> sql_result, data |-> data, summary_response |-> summary_response,
     summary_result |-> summary_result, bar_chart_response |-> bar_chart_response,
     chat_response |-> chat_response, outcome |-> outcome, eq |-> eq, calls |-> calls,
     executed |-> executed, writes |-> writes, last_wt |-> last_wt,
     session_ops |-> session_ops]

\* the chat store (chat/manager.py) before the two turns: chat c1 holds a
\* conversation, no other chat exists
StoredBefore(cid) ==
    IF cid = "c1" THEN [exists |-> TRUE, messages |-> <<"earlier">>]
    ELSE [exists |-> FALSE, messages |-> <<>>]

\* the chat store now: history_store.save(session_id, history, ...) replaces
\* the history of session_id; create_new_chat() adds a chat without messages
StoredHistory(cid) ==
    LET done == {w \in {writes[i] : i \in 1..Len(writes)}
                        \cup {parked.writes[i] : i \in 1..Len(parked.writes)} :
                    w.chat_id = cid /\ w.result = "ok"}
        made == {o \in {session_ops[i] : i \in 1..Len(session_ops)}
                        \cup {parked.session_ops[i] : i \in 1..Len(parked.session_ops)} :
                    o.op = "create_new_chat" /\ o.chat_id = cid}
    IN IF done # {} THEN [exists |-> TRUE, messages |-> (CHOOSE w \in done : TRUE).all_messages]
       ELSE IF made # {} THEN [exists |-> TRUE, messages |-> <<>>]
       ELSE StoredBefore(cid)

\* every collaborator of the turn that runs answers: the chat store finds an
\* existing chat in the database, agents return data (one statement stands
\* for every statement), the connection pool gives a connection, and the
\* database returns no row or a full page of rows, or rejects the first
\* statement of the turn for a stale column
Answered ==
    /\ pc # "hung"
    /\ eq.pc # "hung"
    /\ eq.pc = "finally" => eq.conn
    /\ \A i \in 1..Len(session_ops) :
          session_ops[i].result = "ok" /\ session_ops[i].op # "chat_message_cache"
    /\ \A i \in 1..Len(calls) :
          /\ calls[i].result = "ok"
          /\ calls[i].agent = "sql_agent" => calls[i].sql = "SELECT * FROM transactions"
    /\ \A i \in 1..Len(executed) :
          \/ /\ executed[i].fetch.kind = "ok"
             /\ Len(ValueOf(executed[i].fetch)) \in {0, MAX_QUERY_RESULTS}
          \/ /\ i = 1
             /\ executed[i].fetch = Raise(PlainError("PostgresError", STALE_COLUMN))

\* lines 18-36 with the chat store answering from what it holds; the turn
\* runs on a chat other than the one of the parked turn
PairStart ==
    /\ pc = "idle"
    /\ StartTurn
    /\ chat_id' \notin {"", parked.chat_id}
    /\ request'.chat_type = "existing" =>
          LET held == StoredHistory(chat_id') IN
          IF held.exists THEN pc' = "classify" /\ message_history' = held.messages
          ELSE outcome'.kind = "raised" /\ outcome'.exc.status = 404

\* the running turn is suspended and the parked one resumed
Switch ==
    /\ Locals # parked
    /\ parked' = Locals
    /\ pc' = parked.pc
    /\ request' = parked.request
    /\ chat_id' = parked.chat_id
    /\ message_history' = parked.message_history
    /\ query_type' = parked.query_type
    /\ sql_result' = parked.sql_result
    /\ data' = parked.data
    /\ summary_response' = parked.summary_response
    /\ summary_result' = parked.summary_result
    /\ bar_chart_response' = parked.bar_chart_response
    /\ chat_response' = parked.chat_response
    /\ outcome' = parked.outcome
    /\ eq' = parked.eq
    /\ calls' = parked.calls
    /\ executed' = parked.executed
    /\ writes' = parked.writes
    /\ last_wt' = parked.last_wt
    /\ session_ops' = parked.session_ops
    /\ UNCHANGED <<open, repair, endpoints>>

PairNext ==
    \/ PairStart /\ Answered'
    \/ Classify /\ Answered'
    \/ SqlGenerate /\ Answered'
    \/ ExecuteQueryConnect /\ Answered'
    \/ ExecuteQueryFetch /\ Answered'
    \/ ExecuteQueryFinally
    \/ AfterExecute
    \/ FreshGenerate /\ Answered'
    \/ AfterReExecute
    \/ Summarize /\ Answered'
    \/ ChartAnalyze /\ Answered'
    \/ AfterChartExecute
    \/ BuildResponse
    \/ Compact /\ Answered'
    \/ Persist /\ Answered'
    \/ SimpleRespond /\ Answered'
    \/ SimpleCompact /\ Answered'
    \/ SimplePersist /\ Answered'
    \/ Switch

PairSpec == Init /\ [][PairNext]_vars

-----------------------------------------------------------------------------
(* The other endpoints: delete_chat (controllers/chat_controller.py) next to *)
(* the existence check of a chat query, update_alert and grafana_webhook    *)
(* (controllers/transaction_controller.py, services/transaction_service.py) *)
(* Requests to different endpoints are served concurrently: each call       *)
(* advances from one await to the next, interleaved with the others.        *)

\* calls to update_alert that may be made while connections remain open
MaxLeaked == 2

ChatIds == {"c1", "c2", NEW_CHAT_ID}

\* the turn and the repair stay as they are
CoreUnchanged ==
    UNCHANGED <<pc, request, chat_id, message_history, query_type, sql_result, data,
                summary_response, summary_result, bar_chart_response, chat_response,
                outcome, eq, open, calls, executed, writes, last_wt, session_ops, parked,
                repair>>

\* chat/manager.py, create_new_chat(): called without await, the new chat is
\* registered in the process (chat_message_cache) and not yet persisted
AfterCreate(store, cid) == [store EXCEPT !.cache = @ \cup {cid}]

\* chat/manager.py, update_chat_history: the turn is persisted and cached
AfterSave(store, cid) == [store EXCEPT !.db = @ \cup {cid}, !.cache = @ \cup {cid}]

\* chat/manager.py, delete_chat_from_db answering True
AfterDeleteFromDb(store, cid) == [store EXCEPT !.db = @ \ {cid}]

\* chat/manager.py, delete_chat_from_memory
AfterDeleteFromMemory(store, cid) == [store EXCEPT !.cache = @ \ {cid}]

\* every way chat_exists_in_db(cid) can end on the store
ExistsInDb(store, cid) == {Ok(cid \in store.db), Raise(STORE_ERROR), Hang}

\* chat_service.py line 23: a query on a new chat creates the chat
NewChatCreated ==
    /\ NEW_CHAT_ID \notin chat_store.db \cup chat_store.cache \cup chat_store.deleted
    /\ chat_store' = AfterCreate(chat_store, NEW_CHAT_ID)
    /\ UNCHANGED <<del_call, lookup, alert, chats_open, hook>>
    /\ CoreUnchanged

\* chat_service.py lines 241 and 342: a turn on a chat the process knows has
\* written its history
HistorySaved ==
    /\ \E cid \in chat_store.db \cup chat_store.cache :
         chat_store' = AfterSave(chat_store, cid)
    /\ UNCHANGED <<del_call, lookup, alert, chats_open, hook>>
    /\ CoreUnchanged

\* chat_service.py lines 29-36: a query on an existing chat checks that the
\* chat exists; the cache is read when the database has answered
QueryExisting ==
    /\ \E cid \in ChatIds : \E in_db \in ExistsInDb(chat_store, cid) :
         LET s == ExistingSession(cid, in_db, cid \in chat_store.cache, Ok(<<>>)) IN
         lookup' = [chat_id |-> cid, ops |-> s.ops, end |-> s.end]
    /\ UNCHANGED <<chat_store, del_call, alert, chats_open, hook>>
    /\ CoreUnchanged

\* chat_controller.py lines 87-90: DELETE /chats/{chat_id} arrives
DeleteChat ==
    /\ del_call.pc \in {"idle", "done"}
    /\ \E cid \in ChatIds :
         del_call' = [pc |-> "check", chat_id |-> cid, response |-> NoApiResponse]
    /\ UNCHANGED <<chat_store, lookup, alert, chats_open, hook>>
    /\ CoreUnchanged

\* chat_controller.py lines 115-120
DeleteExcept(cid, e) ==
    ApiResponse(FALSE, "Failed to delete chat " \o cid, None, Str(e))

\* chat_controller.py lines 92-96
DeleteNotFound(cid) ==
    ApiResponse(FALSE, "Chat " \o cid \o " not found", None, "Chat not found")

\* chat_controller.py lines 91-96 and 115-120: where delete_chat is after
\* chat_exists_in_db ended with o
DeleteChecked(cid, o) ==
    IF o.kind = "hang" THEN [pc |-> "hung", response |-> NoApiResponse]
    ELSE IF o.kind = "raise" THEN [pc |-> "done", response |-> DeleteExcept(cid, o.exc)]
    ELSE IF ~ValueOf(o) THEN [pc |-> "done", response |-> DeleteNotFound(cid)]
    ELSE [pc |-> "delete", response |-> NoApiResponse]

DeleteCheck ==
    /\ del_call.pc = "check"
    /\ \E o \in ExistsInDb(chat_store, del_call.chat_id) :
         LET after == DeleteChecked(del_call.chat_id, o) IN
         del_call' = [del_call EXCEPT !.pc = after.pc, !.response = after.response]
    /\ UNCHANGED <<chat_store, lookup, alert, chats_open, hook>>
    /\ CoreUnchanged

\* every way delete_chat_from_db can end
DeleteOutcomes == {Ok(TRUE), Ok(FALSE), Raise(STORE_ERROR), Hang}

\* chat_controller.py lines 98-101: the row is deleted, then the cache entry,
\* with no await between; deleted records that success will be reported
StoreAfterDelete(store, cid) ==
    [AfterDeleteFromMemory(AfterDeleteFromDb(store, cid), cid) EXCEPT !.deleted = @ \cup {cid}]

\* chat_controller.py lines 100-120: the response after delete_chat_from_db
\* ended with o
DeleteResponse(cid, o) ==
    IF o.kind = "raise" THEN DeleteExcept(cid, o.exc)
    ELSE IF ValueOf(o)
    THEN ApiResponse(TRUE, "Chat " \o cid \o " deleted successfully", cid, None)
    ELSE ApiResponse(FALSE, "Failed to delete chat " \o cid, None, "Database deletion failed")

\* chat_controller.py lines 98-113
DeleteFromDb ==
    /\ del_call.pc = "delete"
    /\ \E o \in DeleteOutcomes :
         IF o.kind = "hang"
         THEN /\ del_call' = [del_call EXCEPT !.pc = "hung"]
              /\ UNCHANGED chat_store
         ELSE /\ del_call' = [del_call EXCEPT !.pc = "done",
                                              !.response = DeleteResponse(del_call.chat_id, o)]
              /\ chat_store' = IF o.kind = "ok" /\ ValueOf(o)
                               THEN StoreAfterDelete(chat_store, del_call.chat_id)
                               ELSE chat_store
    /\ UNCHANGED <<lookup, alert, chats_open, hook>>
    /\ CoreUnchanged

-----------------------------------------------------------------------------
(* update_alert (transaction_controller.py 74-80) and update_alert_service  *)
(* (transaction_service.py 89-93)                                           *)

\* every way get_chats_db_connection() can end
ChatsConnectOutcomes == {Ok("conn"), Raise(PlainError("OSError", "connection refused")), Hang}

\* every way conn.execute of the UPDATE statement can end
UpdateOutcomes ==
    {Ok("UPDATE 1"), Raise(PlainError("PostgresError", "relation \"alerts\" does not exist")), Hang}

\* transaction_controller.py lines 79-80
UpdateAlertExcept(e) == ApiResponse(FALSE, "Failed to update alert", None, Str(e))

\* transaction_controller.py line 75: POST /alerts/{alert_id} arrives
UpdateAlert ==
    /\ alert.pc \in {"idle", "done"}
    /\ chats_open < MaxLeaked
    /\ alert' = [AlertIdle EXCEPT !.pc = "connect", !.alert_id = "a1"]
    /\ UNCHANGED <<chat_store, del_call, lookup, chats_open, hook>>
    /\ CoreUnchanged

\* transaction_service.py line 90
AlertConnect ==
    /\ alert.pc = "connect"
    /\ \E o \in ChatsConnectOutcomes :
         IF o.kind = "ok"
         THEN /\ alert' = [alert EXCEPT !.pc = "execute", !.conn = TRUE]
              /\ chats_open' = chats_open + 1
         ELSE /\ alert' = IF o.kind = "hang" THEN [alert EXCEPT !.pc = "hung"]
                          ELSE [alert EXCEPT !.pc = "done",
                                             !.response = UpdateAlertExcept(o.exc)]
              /\ UNCHANGED chats_open
    /\ UNCHANGED <<chat_store, del_call, lookup, hook>>
    /\ CoreUnchanged

\* transaction_service.py lines 91-92: the UPDATE is executed; an exception
\* leaves update_alert_service at once and is answered by the controller
AlertExecute ==
    /\ alert.pc = "execute"
    /\ \E o \in UpdateOutcomes :
         alert' = IF o.kind = "ok" THEN [alert EXCEPT !.pc = "close"]
                  ELSE IF o.kind = "hang" THEN [alert EXCEPT !.pc = "hung"]
                  ELSE [alert EXCEPT !.pc = "done", !.response = UpdateAlertExcept(o.exc)]
    /\ UNCHANGED <<chat_store, del_call, lookup, chats_open, hook>>
    /\ CoreUnchanged

\* transaction_service.py line 93 and transaction_controller.py line 78
AlertClose ==
    /\ alert.pc = "close"
    /\ alert' = [alert EXCEPT !.pc = "done", !.conn = FALSE,
                              !.response = ApiResponse(TRUE, "Alert updated", None, None)]
    /\ chats_open' = chats_open - 1
    /\ UNCHANGED <<chat_store, del_call, lookup, hook>>
    /\ CoreUnchanged

-----------------------------------------------------------------------------
(* grafana_webhook (transaction_controller.py 82-92) and                    *)
(* handle_grafana_webhook_service (transaction_service.py 95-132)           *)

\* GrafanaWebhookRequest: the state of the alert and the message, which
\* carries the transaction id
WebhookRequests ==
    {[state |-> st, message |-> m] : st \in {"alerting", "ok", None}, m \in {"", "tx-1"}}

\* FailedTransactionRetryResponse values of the agent
RetryDatas ==
    {[summary |-> "The settlement failed.", key_insights |-> <<"insight">>,
      recommendation |-> "retry"]}

\* transaction_service.py lines 122-126
RetryTimeoutFallback ==
    [summary |-> "I'm here to help with your payment and transaction questions. Could you please rephrase your question?",
     key_insights |-> <<"Response generation timed out">>,
     recommendation |-> "Please try asking your question again or be more specific."]

\* what handle_grafana_webhook_service returns: a plain dict (line 99) or a
\* FailedTransactionRetryResponse (line 132)
IgnoredResult(webhook_data) ==
    [tag |-> "dict", status |-> "ignored",
     reason |-> "State was '" \o webhook_data.state \o "'", summary |-> None]

ModelResult(simple_response) ==
    [tag |-> "model", status |-> None, reason |-> None, summary |-> simple_response.summary]

\* every webhook analysed, whatever its state
Ignored_none(webhook_data) == FALSE

\* transaction_service.py line 98
Ignored(webhook_data) == webhook_data.state # "alerting"

\* a call of the service on a collaborator
HookOp(op, kind) == [op |-> op, result |-> kind]

\* transaction_service.py lines 96-104: the webhook is ignored, rejected for
\* want of a transaction id, or goes on to the lookup
Received(webhook_data) ==
    IF Ignored(webhook_data)
    THEN [pc |-> "respond", outcome |-> Ok(IgnoredResult(webhook_data))]
    ELSE IF webhook_data.message = ""
    THEN [pc |-> "respond",
          outcome |-> Raise(HTTPException(400, "'transaction_id' tag not found in Grafana alert"))]
    ELSE [pc |-> "details", outcome |-> Hang]

\* transaction_controller.py line 83 and transaction_service.py lines 95-104
GrafanaWebhook ==
    /\ hook.pc \in {"idle", "done"}
    /\ \E req \in WebhookRequests :
         hook' = [HookIdle EXCEPT !.request = req,
                                  !.pc = Received(req).pc,
                                  !.outcome = Received(req).outcome]
    /\ UNCHANGED <<chat_store, del_call, lookup, alert, chats_open>>
    /\ CoreUnchanged

\* every way transaction_details_from_db can end
DetailsOutcomes == {Ok("details of tx-1"), Ok(None), Raise(STORE_ERROR), Hang}

\* transaction_service.py line 106: the await is not under with_timeout
HookDetails ==
    /\ hook.pc = "details"
    /\ \E o \in DetailsOutcomes :
         hook' = [hook EXCEPT
                    !.ops = Append(@, HookOp("transaction_details_from_db", o.kind)),
                    !.transaction_details = IF o.kind = "ok" THEN ValueOf(o) ELSE @,
                    !.pc = IF o.kind = "ok" THEN "agent"
                           ELSE IF o.kind = "raise" THEN "respond" ELSE "hung",
                    !.outcome = IF o.kind = "raise" THEN o ELSE @]
    /\ UNCHANGED <<chat_store, del_call, lookup, alert, chats_open>>
    /\ CoreUnchanged

\* transaction_service.py lines 119-128: simple_response after the agent call
\* ended with r, or raise when the exception leaves the service
RetryResponseOf(r) ==
    IF r.kind = "ok" THEN [raise |-> FALSE, simple_response |-> ValueOf(r).data]
    ELSE IF r.exc.type = "HTTPException" /\ r.exc.status = 408
    THEN [raise |-> FALSE, simple_response |-> RetryTimeoutFallback]
    ELSE [raise |-> TRUE, simple_response |-> RetryTimeoutFallback]

\* transaction_service.py lines 108-128
HookAgent ==
    /\ hook.pc = "agent"
    /\ \E coro \in AgentOutcomes(RetryDatas, <<>>, "failed_transaction_retry_agent") :
         LET r == with_timeout(coro, "Failed transaction retry agent")
             sr == RetryResponseOf(r)
         IN hook' = [hook EXCEPT
                       !.ops = Append(@, HookOp("failed_transaction_retry_agent", CallKind(r))),
                       !.simple_response = IF sr.raise THEN @ ELSE sr.simple_response,
                       !.pc = IF sr.raise THEN "respond" ELSE "insert",
                       !.outcome = IF sr.raise THEN r ELSE @]
    /\ UNCHANGED <<chat_store, del_call, lookup, alert, chats_open>>
    /\ CoreUnchanged

\* every way insert_transaction_details_to_db can end
InsertOutcomes == {Ok("inserted"), Raise(STORE_ERROR), Hang}

\* transaction_service.py lines 130-132
HookInsert ==
    /\ hook.pc = "insert"
    /\ \E o \in InsertOutcomes :
         hook' = [hook EXCEPT
                    !.ops = Append(@, HookOp("insert_transaction_details_to_db", o.kind)),
                    !.pc = IF o.kind = "hang" THEN "hung" ELSE "respond",
                    !.outcome = IF o.kind = "ok" THEN Ok(ModelResult(hook.simple_response))
                                ELSE o]
    /\ UNCHANGED <<chat_store, del_call, lookup, alert, chats_open>>
    /\ CoreUnchanged

\* result.model_dump() (line 89): a pydantic model has the method, a dict
\* has not
model_dump(result) ==
    IF result.tag = "model" THEN Ok(result.summary)
    ELSE Raise(PlainError("AttributeError", "'dict' object has no attribute 'model_dump'"))

\* transaction_controller.py lines 84-92: the response for what the service
\* returned or raised
WebhookResponse(o) ==
    LET dumped == IF o.kind = "ok" THEN model_dump(ValueOf(o)) ELSE o IN
    IF dumped.kind = "ok"
    THEN ApiResponse(TRUE, "Alert processed and analyzed.", ValueOf(dumped), None)
    ELSE ApiResponse(FALSE, "Internal server error", None, Str(dumped.exc))

\* transaction_controller.py lines 85-92
HookRespond ==
    /\ hook.pc = "respond"
    /\ hook' = [hook EXCEPT !.pc = "done", !.response = WebhookResponse(hook.outcome)]
    /\ UNCHANGED <<chat_store, del_call, lookup, alert, chats_open>>
    /\ CoreUnchanged

\* the chat endpoints: queries that create, check and save chats, and
\* delete_chat
ChatStoreNext ==
    \/ NewChatCreated
    \/ HistorySaved
    \/ QueryExisting
    \/ DeleteChat
    \/ DeleteCheck
    \/ DeleteFromDb

ChatStoreSpec == Init /\ [][ChatStoreNext]_vars

\* the endpoints of transaction_controller.py that write: update_alert and
\* grafana_webhook
TransactionNext ==
    \/ UpdateAlert
    \/ AlertConnect
    \/ AlertExecute
    \/ AlertClose
    \/ GrafanaWebhook
    \/ HookDetails
    \/ HookAgent
    \/ HookInsert
    \/ HookRespond

TransactionSpec == Init /\ [][TransactionNext]_vars

-----------------------------------------------------------------------------
(* Properties *)

SimpleStages == {"simple", "simple_compact", "simple_persist"}
MainStages == {"execute", "re_execute"}

CallsAt(stage) == {i \in 1..Len(calls) : calls[i].stage = stage}
CallsOf(agent) == {i \in 1..Len(calls) : calls[i].agent = agent}
ExecutedAt(stages) == {i \in 1..Len(executed) : executed[i].stage \in stages}

\* what execute_query delivers for a fetch that ended with coro
\* ExecuteQueryExcept of every exception a fetch under with_timeout ends with
Converted ==
    [e \in {with_timeout(o, "Database query execution").exc :
                o \in {f \in FetchOutcomes("") : f.kind # "ok"}} |-> ExecuteQueryExcept(e)]

Delivered(coro) ==
    LET r == with_timeout(coro, "Database query execution") IN
    IF r.kind = "ok" THEN r ELSE Raise(Converted[r.exc])

WellFormed(resp) ==
    /\ resp.record_count = Len(resp.data)
    /\ ~resp.success => (resp.data = <<>> /\ resp.sql_query = "")

\* C1: every ChatResponse built or returned by the turn, on the SQL path, the
\* simple path and the failure paths, has record_count = len(data), and an
\* unsuccessful one has no data and an empty sql_query.
C1_ResponseInvariants ==
    /\ chat_response # NoResponse => WellFormed(chat_response)
    /\ outcome.kind = "returned" => WellFormed(outcome.response)

\* a failure response returned after rows had been retrieved
C1_Witness ==
    /\ outcome.kind = "returned"
    /\ ~outcome.response.success
    /\ Len(data) = TableRows

\* the turn was ended by the database rejecting the main query
EndedByDbError ==
    /\ pc = "done"
    /\ executed # <<>>
    /\ calls # <<>>
    /\ LET x == executed[Len(executed)]
           c == calls[Len(calls)]
       IN /\ x.stage \in MainStages
          /\ x.fetch.kind = "raise"
          /\ x.fetch.exc.type = "PostgresError"
          /\ c.stage = (IF x.stage = "execute" THEN "sql_gen" ELSE "fresh_gen")
          /\ c.result = "ok"

\* the turn was ended by an agent raising an error of its own after the
\* classification stage and outside the chart and compaction stages
EndedByAgentError ==
    /\ pc = "done"
    /\ calls # <<>>
    /\ calls[Len(calls)].stage \in {"sql_gen", "fresh_gen", "summary", "simple"}
    /\ calls[Len(calls)].result = "error"

FailedResponse ==
    /\ outcome.kind = "returned"
    /\ ~outcome.response.success
    /\ outcome.response.record_count = 0
    /\ outcome.response.data = <<>>
    /\ outcome.response.sql_query = ""
    /\ outcome.response.bar_chart = ChartNone

\* C2 as stated: a turn ended by an agent error or by a database execution
\* error returns a success=false response with zeroed metrics; nothing is
\* raised to the caller.
C2_Original == (EndedByDbError \/ EndedByAgentError) => FailedResponse

\* C2 amended: a turn ended by an agent's own error returns the success=false
\* response with zeroed metrics; a turn ended by a database execution error
\* of the main query raises the HTTPException that execute_query made of it
\* (status 400 or 500) to the caller.
C2_FailuresAtBoundary ==
    /\ EndedByAgentError => FailedResponse
    /\ EndedByDbError =>
         /\ outcome.kind = "raised"
         /\ outcome.exc = Delivered(executed[Len(executed)].fetch).exc
         /\ outcome.exc.type = "HTTPException"
         /\ outcome.exc.status \in {400, 500}

C2_Witness == EndedByDbError /\ outcome.kind = "raised" /\ outcome.exc.status = 500

SummaryTimedOut == \E i \in CallsAt("summary") : calls[i].result = "timeout"
SummaryAnswered == \E i \in CallsAt("summary") : calls[i].result = "ok"

\* C3: a turn whose main query returned rows and whose summary call timed out
\* ends with a success=true response carrying the rows, their count and the
\* fallback summary.
C3_SummaryTimeoutKeepsData ==
    (pc = "done" /\ data # <<>> /\ SummaryTimedOut) =>
        /\ outcome.kind = "returned"
        /\ outcome.response.success
        /\ outcome.response.data = data
        /\ outcome.response.record_count = Len(data)
        /\ outcome.response.summary = SummaryTimeoutFallback(data).summary

\* C4: a turn whose main query returned no rows calls the summary agent once
\* and, when that call succeeds, ends with a success=true response carrying
\* the fixed 'No data found' summary, no data and record_count 0.
C4_NoRowsCompletes ==
    (pc = "done" /\ data = <<>> /\ SummaryAnswered) =>
        /\ Cardinality(CallsAt("summary")) = 1
        /\ outcome.kind = "returned"
        /\ outcome.response.success
        /\ outcome.response.summary = NoDataSummary.summary
        /\ outcome.response.data = <<>>
        /\ outcome.response.record_count = 0

StaleAt(i) == LET d == Delivered(executed[i].fetch) IN d.kind = "raise" /\ IsStaleColumn(d.exc)

\* C6: the SQL agent is called at most twice and the main query executed at
\* most twice in a turn; the regeneration happens at most once, only after
\* the first execution failed on a stale column, and always then; a failed
\* re-execution raises its failure and ends the turn without another call.
C6_SingleRegeneration ==
    /\ Cardinality(CallsOf("sql_agent")) <= 2
    /\ Cardinality(ExecutedAt(MainStages)) <= 2
    /\ Cardinality(CallsAt("fresh_gen")) <= 1
    /\ Cardinality(ExecutedAt({"execute"})) <= 1
    /\ Cardinality(ExecutedAt({"re_execute"})) <= 1
    /\ \A i \in CallsAt("fresh_gen") : ExecutedAt({"execute"}) # {} /\ StaleAt(1)
    /\ (pc \notin {"execute", "fresh_gen"} /\ ExecutedAt({"execute"}) # {} /\ StaleAt(1)) =>
           Cardinality(CallsAt("fresh_gen")) = 1
    /\ \A i \in ExecutedAt({"re_execute"}) :
           (eq.pc = "idle" /\ Delivered(executed[i].fetch).kind = "raise") =>
               /\ pc = "done"
               /\ outcome = Raised(Delivered(executed[i].fetch).exc)
               /\ calls[Len(calls)].stage = "fresh_gen"

\* the regenerated query failed on a stale column as well
C6_Witness ==
    /\ pc = "done"
    /\ Cardinality(ExecutedAt(MainStages)) = 2
    /\ StaleAt(1)
    /\ StaleAt(2)
    /\ outcome.kind = "raised"
    /\ outcome.exc.status = 400

TimeoutCondition(operation_name) ==
    Raise(HTTPException(408, operation_name
          \o " timed out. Please try a simpler query or check your connection."))

\* C7 as stated: a completed operation's result and a failed operation's
\* failure, of any kind, leave with_timeout unchanged; the 408 condition is
\* raised only for an operation that did not complete within the timeout.
C7_Original ==
    last_wt.applied =>
        /\ last_wt.coro.kind \in {"ok", "raise"} => last_wt.result = last_wt.coro
        /\ last_wt.coro.kind = "hang" => last_wt.result = TimeoutCondition(last_wt.operation_name)

\* C7 amended: a completed operation's result, and a failure other than
\* asyncio.TimeoutError, leave with_timeout unchanged; the 408 condition with
\* the label is raised for an operation that did not complete within the
\* timeout and for an operation that itself raised asyncio.TimeoutError.
C7_TimeoutOrUnchanged ==
    last_wt.applied =>
        IF \/ last_wt.coro.kind = "hang"
           \/ (last_wt.coro.kind = "raise" /\ last_wt.coro.exc.type = "TimeoutError")
        THEN last_wt.result = TimeoutCondition(last_wt.operation_name)
        ELSE last_wt.result = last_wt.coro

C7_Witness ==
    /\ last_wt.applied
    /\ last_wt.coro.kind = "raise"
    /\ last_wt.coro.exc.type = "TimeoutError"
    /\ last_wt.result = TimeoutCondition("SQL generation")

\* C8: when execute_query has returned or raised, no connection it acquired
\* is open; while it runs it holds at most the one it acquired.
C8_ConnectionReleased ==
    /\ eq.pc \in {"idle", "exit"} => open = 0
    /\ eq.pc \in {"connect"} => open = 0
    /\ eq.pc \in {"fetch", "finally"} => open = (IF eq.conn THEN 1 ELSE 0)

\* execute_query raising after its fetch did not complete in time
C8_Witness ==
    /\ eq.pc = "exit"
    /\ eq.conn
    /\ eq.pending.kind = "raise"
    /\ executed[Len(executed)].fetch.kind = "hang"
    /\ open = 0

\* C9: when the fetch did not complete within DATABASE_TIMEOUT, execute_query
\* raises status 408, not the 500 of an execution error or the 400 of a
\* stale column.
C9_FetchTimeoutIs408 ==
    (eq.pc = "exit" /\ eq.conn /\ executed[Len(executed)].fetch.kind = "hang") =>
        /\ eq.pending.kind = "raise"
        /\ eq.pending.exc.status = 408

\* C10: a statement that carries no row limit of its own and is not a
\* count-style aggregate is executed with LIMIT MAX_QUERY_RESULTS appended,
\* and execute_query returns at most MAX_QUERY_RESULTS rows for it.
C10_ResultBounded ==
    (eq.pc = "exit" /\ eq.conn /\ RowLimit(eq.sql_query) = -1
                    /\ ~IsCountAggregate(eq.sql_query)) =>
        /\ RowLimit(executed[Len(executed)].sql) = MAX_QUERY_RESULTS
        /\ eq.pending.kind = "ok" => Len(ValueOf(eq.pending)) <= MAX_QUERY_RESULTS

\* C11: every suspension point of a turn is bounded by a timeout, so a turn
\* in progress always reaches a terminal outcome (a response returned or an
\* error raised), whichever single collaborator call never completes.
\* Stated on states: no turn is left waiting on a call that does not
\* complete, in the handler or inside execute_query.
C11_TurnNeverStuck == pc # "hung" /\ eq.pc # "hung"

SqlGenerationStages == {"sql_gen", "fresh_gen"}

\* a stage other than SQL generation timed out: an agent call, or a fetch
\* that did not complete within DATABASE_TIMEOUT
RecoverableTimeout ==
    \/ \E i \in 1..Len(calls) :
         calls[i].result = "timeout" /\ calls[i].stage \notin SqlGenerationStages
    \/ \E i \in 1..Len(executed) : executed[i].fetch.kind = "hang"

\* something other than such a timeout went wrong in the turn: an agent or
\* the database raised an error, the connection could not be acquired, or
\* SQL generation timed out
OtherFailure ==
    \/ \E i \in 1..Len(calls) : calls[i].result = "error"
    \/ \E i \in 1..Len(calls) :
         calls[i].result = "timeout" /\ calls[i].stage \in SqlGenerationStages
    \/ \E i \in 1..Len(executed) : executed[i].fetch.kind = "raise"
    \/ /\ outcome.kind = "raised"
       /\ \E o \in ConnectOutcomes :
            o.kind = "raise" /\ outcome.exc = ExecuteQueryExcept(o.exc)

\* C12: a timeout in a stage other than SQL generation is recovered by the
\* stage's fallback: a turn in which nothing else failed ends with a
\* success=true response.
C12_TimeoutsRecovered ==
    (pc = "done" /\ RecoverableTimeout /\ ~OtherFailure) =>
        (outcome.kind = "returned" /\ outcome.response.success)

SQL_TIMEOUT_DETAIL == "AI query generation timed out. Please try a simpler question."

SqlGenerationTimedOut == \E i \in CallsAt("sql_gen") : calls[i].result = "timeout"

\* C13: when the initial SQL-generation call timed out the turn has ended
\* with the 408 'try a simpler question' condition raised to the caller, no
\* statement was executed, no agent was called after the SQL agent, and the
\* session history was not written.
C13_SqlTimeoutEndsTurn ==
    SqlGenerationTimedOut =>
        /\ pc = "done"
        /\ outcome = Raised(HTTPException(408, SQL_TIMEOUT_DETAIL))
        /\ calls[Len(calls)].stage = "sql_gen"
        /\ CallsOf("summary_agent") = {}
        /\ CallsOf("bar_chart_agent") = {}
        /\ CallsOf("response_summary_agent") = {}
        /\ executed = <<>>
        /\ eq = EqIdle
        /\ open = 0
        /\ writes = <<>>

\* the SQL agent did not answer within AI_AGENT_TIMEOUT on a chat with history
C13_Witness ==
    /\ SqlGenerationTimedOut
    /\ last_wt.coro.kind = "hang"
    /\ message_history # <<>>
    /\ outcome.kind = "raised"

ChartCalled == CallsAt("chart") # {}
ChartCallFailed == \E i \in CallsAt("chart") : calls[i].result # "ok"
\* the chart query was fetched and execute_query has raised for it
ChartQueryFailed ==
    /\ pc # "chart_exec"
    /\ \E i \in ExecutedAt({"chart_exec"}) : Delivered(executed[i].fetch).kind = "raise"

\* C14: once the chart agent has been called the turn is never aborted by the
\* chart stage: a failed chart call leaves bar_chart None, a failed chart
\* query leaves the analysis with chart_data_error and no chart_data, and the
\* turn ends with a success=true response carrying the main data, its count,
\* the summary and that chart value.
C14_ChartStageNonFatal ==
    ChartCalled =>
        /\ pc \in {"chart_exec", "build", "compact", "persist", "done", "hung"}
        /\ outcome.kind # "raised"
        /\ ChartCallFailed => bar_chart_response = ChartNone
        /\ ChartQueryFailed =>
             /\ bar_chart_response.tag = "dict"
             /\ ~bar_chart_response.has_chart_data
             /\ \E i \in ExecutedAt({"chart_exec"}) :
                  bar_chart_response.chart_data_error = Str(Delivered(executed[i].fetch).exc)
        /\ pc = "done" =>
             /\ outcome.kind = "returned"
             /\ outcome.response.success
             /\ outcome.response.data = data
             /\ outcome.response.record_count = Len(data)
             /\ outcome.response.summary = summary_response.summary
             /\ outcome.response.bar_chart = bar_chart_response

\* the chart query timed out and the turn still returned its rows
C14_Witness ==
    /\ pc = "done"
    /\ ChartQueryFailed
    /\ \E i \in ExecutedAt({"chart_exec"}) : executed[i].fetch.kind = "hang"
    /\ outcome.kind = "returned"
    /\ outcome.response.success
    /\ outcome.response.data # <<>>
    /\ outcome.response.bar_chart.chart_data_error # None

StartsWith(s, p) == Len(s) >= Len(p) /\ SubSeq(s, 1, Len(p)) = p

ExclusiveChart(chart) == ~(chart.has_chart_data /\ chart.chart_data_error # None)

\* C15: a chart analysis never carries both chart_data and chart_data_error;
\* chart_data is there only when the chart query was executed successfully
\* and chart_data_error only when execute_query raised for the chart query.
C15_ChartDataExclusive ==
    /\ ExclusiveChart(bar_chart_response)
    /\ ExclusiveChart(chat_response.bar_chart)
    /\ outcome.kind = "returned" => ExclusiveChart(outcome.response.bar_chart)
    /\ bar_chart_response.has_chart_data =>
         \E i \in ExecutedAt({"chart_exec"}) :
            Delivered(executed[i].fetch) = Ok(bar_chart_response.chart_data)
    /\ bar_chart_response.chart_data_error # None =>
         /\ \A i \in ExecutedAt({"chart_exec"}) : Delivered(executed[i].fetch).kind = "raise"
         /\ \E status \in {"400: ", "408: ", "500: "} :
              StartsWith(bar_chart_response.chart_data_error, status)

\* a response carrying the rows of the chart query
C15_Witness ==
    /\ outcome.kind = "returned"
    /\ outcome.response.bar_chart.has_chart_data
    /\ outcome.response.bar_chart.chart_data # <<>>
    /\ outcome.response.bar_chart.chart_data_error = None

CompactCalls == CallsAt("compact") \cup CallsAt("simple_compact")

\* C16: response compaction never fails the turn, on either path: after a
\* compaction timeout response_summary is the truncated excerpt of the primary
\* summary, after another failure it is a failure notice, and the turn returns
\* success=true with a response_summary that is a string.
C16_CompactionNeverFails ==
    \A i \in CompactCalls :
        /\ pc \in {"persist", "simple_persist", "done", "hung"}
        /\ outcome.kind # "raised"
        /\ chat_response.response_summary # None
        /\ calls[i].result = "timeout" =>
             chat_response.response_summary =
                "Summary: " \o Prefix(summary_response.summary, 100)
                            \o "... (Summary generation timed out)"
        /\ calls[i].result = "error" =>
             \/ StartsWith(chat_response.response_summary, "Summary generation error: ")
             \/ StartsWith(chat_response.response_summary, "Summary generation failed: ")
        /\ pc = "done" =>
             /\ outcome.kind = "returned"
             /\ outcome.response.success
             /\ outcome.response.response_summary = chat_response.response_summary

\* the compaction call of the simple path timed out and the turn returned
C16_Witness ==
    /\ pc = "done"
    /\ \E i \in CallsAt("simple_compact") : calls[i].result = "timeout"
    /\ outcome.kind = "returned"
    /\ outcome.response.success
    /\ StartsWith(outcome.response.response_summary, "Summary: ")

SimpleShape(resp) ==
    /\ resp.sql_query = ""
    /\ resp.data = <<>>
    /\ resp.record_count = 0
    /\ resp.bar_chart = ChartNone

NoSqlWork ==
    /\ CallsOf("sql_agent") = {}
    /\ CallsOf("bar_chart_agent") = {}
    /\ executed = <<>>
    /\ eq = EqIdle
    /\ open = 0

LastMainExecution == executed[CHOOSE i \in ExecutedAt(MainStages) :
                                 \A j \in ExecutedAt(MainStages) : j <= i]

\* C18: a turn whose SQL generation, execution and summarization succeeded
\* with n > 0 rows returns success=true, the n rows, record_count n, the
\* non-empty repaired query that was given to execute_query, and the summary
\* of the summary agent, however the chart and compaction stages ended.
C18_SuccessfulSqlTurn ==
    (pc = "done" /\ data # <<>> /\ SummaryAnswered) =>
        /\ outcome.kind = "returned"
        /\ outcome.response.success
        /\ Delivered(LastMainExecution.fetch) = Ok(data)
        /\ outcome.response.data = data
        /\ outcome.response.record_count = Len(data)
        /\ outcome.response.sql_query = LastMainExecution.given
        /\ outcome.response.sql_query # ""
        /\ \E d \in AgentSummaries :
             /\ outcome.response.summary = d.summary
             /\ outcome.response.insights = d.key_insights
             /\ outcome.response.recommendation = d.recommendation

\* rows of a regenerated query returned after the chart and compaction calls
\* both failed
C18_Witness ==
    /\ pc = "done"
    /\ data # <<>>
    /\ SummaryAnswered
    /\ CallsAt("fresh_gen") # {}
    /\ ChartCallFailed
    /\ \E i \in CallsAt("compact") : calls[i].result = "error"
    /\ outcome.kind = "returned"
    /\ outcome.response.success

\* C19: validate_and_fix_query is idempotent: repairing a repaired query
\* returns it unchanged.
C19_Idempotent == repair.pc = "twice" => repair.refixed = repair.fixed

\* none of the names the patterns look for is mentioned in q, and every
\* mention of timestamp is the cast column timestamp::... or the type name of
\* a cast ...::timestamptz
TargetFree(q) ==
    LET s == Upper(q)
        t == "  " \o s \o "  "
    IN /\ ~Contains(s, "FINAL_STATUS")
       /\ ~Contains(s, "SUCCESS_RATE")
       /\ ~Contains(s, "COUNT")
       /\ ~Contains(s, "TRANSACTION_SUMMARY")
       /\ \A i \in 3..(Len(s) - 6) :
              SubSeq(t, i, i + 8) = "TIMESTAMP" =>
                  \/ SubSeq(t, i + 9, i + 10) = "::"
                  \/ SubSeq(t, i - 2, i - 1) = "::"

\* C20: validate_and_fix_query returns its input unchanged when none of its
\* target patterns occurs in it; in particular a query whose timestamp
\* references are already cast with ::timestamptz is not rewritten.
C20_NoSpuriousRewrite ==
    /\ (repair.pc \in {"once", "twice"} /\ TargetFree(repair.sql_query)) =>
           repair.fixed = repair.sql_query
    /\ (repair.pc = "twice" /\ TargetFree(repair.fixed)) =>
           repair.refixed = repair.fixed

\* a query comparing and ordering by the cast timestamp went through unchanged
C20_Witness ==
    /\ repair.pc = "once"
    /\ TargetFree(repair.sql_query)
    /\ Contains(repair.sql_query, "WHERE timestamp::timestamptz >=")
    /\ Contains(repair.sql_query, "ORDER BY timestamp::timestamptz")
    /\ repair.fixed = repair.sql_query

-----------------------------------------------------------------------------
(* The conversation history within a turn *)

Loads == {i \in 1..Len(session_ops) : session_ops[i].op = "load_chat_messages_from_db"}

\* the write of the history comes after the compaction call, which is the
\* last agent call of the turn, and no response was returned without it
WrittenAtEnd ==
    /\ Len(writes) <= 1
    /\ writes # <<>> =>
          /\ calls # <<>>
          /\ calls[Len(calls)].stage \in {"compact", "simple_compact"}
          /\ writes[1].chat_id = chat_id
          /\ writes[1].response_summary = chat_response.response_summary
    /\ (outcome.kind = "raised" \/ (outcome.kind = "returned" /\ ~outcome.response.success))
          => writes = <<>>

-----------------------------------------------------------------------------
(* Two turns on distinct chats *)

\* connections a turn holds
Held(t) == IF t.eq.conn /\ t.eq.pc \in {"fetch", "finally"} THEN 1 ELSE 0

\* a turn t has what it would have had alone: the history it began with is
\* the one its chat held before the two turns, it addresses its chat only,
\* the store holds for its chat the messages it saved, and a successful
\* response it returns is the one it built, for its chat and with its rows
AsAlone(t) ==
    /\ t.calls # <<>> =>
          t.message_history = (IF t.request.chat_type = "new" THEN <<>>
                               ELSE StoredBefore(t.chat_id).messages)
    /\ \A i \in 1..Len(t.session_ops) : t.session_ops[i].chat_id = t.chat_id
    /\ \A i \in 1..Len(t.writes) :
          /\ t.writes[i].chat_id = t.chat_id
          /\ t.writes[i].result = "ok" =>
                StoredHistory(t.chat_id) = [exists |-> TRUE, messages |-> t.writes[i].all_messages]
    /\ t.writes = <<>> /\ t.pc # "idle" =>
          StoredHistory(t.chat_id).messages =
              (IF t.request.chat_type = "new" THEN <<>> ELSE StoredBefore(t.chat_id).messages)
    /\ t.outcome.kind = "returned" =>
          IF t.outcome.response.success
          THEN /\ t.outcome.response = t.chat_response
               /\ t.outcome.response.chat_id = t.chat_id
               /\ t.outcome.response.data = t.data
          ELSE /\ t.outcome.response.query = t.request.query
               /\ t.outcome.response.data = <<>>

\* C22: two turns on distinct chats, interleaved in every way at their
\* awaits, do not interfere: each has the history, the response and the
\* saved history it would have had alone, and the connections open are
\* those the two turns hold.
C22_NoInterference ==
    /\ AsAlone(Locals)
    /\ AsAlone(parked)
    /\ open = Held(Locals) + Held(parked)

\* a turn has ended and saved its history while the other turn, begun
\* before that, waits for the database with a connection of its own
C22_Witness ==
    /\ pc = "done"
    /\ outcome.kind = "returned"
    /\ Len(writes) = 1
    /\ writes[1].result = "ok"
    /\ parked.eq.pc = "fetch"
    /\ parked.chat_id \notin {"", chat_id}
    /\ open = 1

-----------------------------------------------------------------------------
(* Regeneration after a stale column *)

FreshCalls == {i \in 1..Len(calls) : calls[i].stage = "fresh_gen"}

\* validate_and_fix_query of each statement an agent can return
Repaired == [q \in SqlTexts \cup ChartTexts |-> validate_and_fix_query(q)]

\* the re-execution of the turn, when it returned rows
ReExecuted ==
    {i \in 1..Len(executed) : executed[i].stage = "re_execute" /\ executed[i].fetch.kind = "ok"}

\* C23: the regeneration call is given the augmented prompt of the first
\* generation and no conversation history, whatever history the turn began
\* with; once the regenerated query has executed, the response the turn
\* builds carries the repaired regenerated query and the rows it returned.
C23_FreshRegeneration ==
    /\ \A i \in FreshCalls :
          /\ calls[i].history = <<>>
          /\ calls[i].agent = "sql_agent"
          /\ calls[i].prompt = AugmentedQuery(request)
          /\ i > 1 /\ calls[i - 1].stage = "sql_gen" /\ calls[i - 1].prompt = calls[i].prompt
    /\ \A x \in ReExecuted :
          LET i == CHOOSE i \in FreshCalls : TRUE
              resp == IF outcome.kind = "returned" THEN outcome.response ELSE chat_response
          IN (resp # NoResponse /\ resp.success) =>
                /\ resp.sql_query = Repaired[calls[i].sql]
                /\ resp.sql_query = executed[x].given
                /\ resp.data = ValueOf(executed[x].fetch)

\* a turn that began with history, whose first query was rejected for a
\* stale column and whose response carries another, regenerated query
C23_Witness ==
    /\ pc = "done"
    /\ message_history # <<>>
    /\ ReExecuted # {}
    /\ outcome.kind = "returned"
    /\ outcome.response.success
    /\ outcome.response.sql_query # executed[1].given
    /\ outcome.response.data # <<>>

-----------------------------------------------------------------------------
(* Repair before execution *)

\* the agent call whose statement an execution runs
GeneratedAt(stage) ==
    IF stage = "execute" THEN "sql_gen"
    ELSE IF stage = "re_execute" THEN "fresh_gen"
    ELSE "chart"

\* C24: every statement given to execute_query, for the first query, the
\* regenerated query and the chart query, is validate_and_fix_query of the
\* statement the agent call of that stage returned; the chart query is
\* executed only when the chart agent answered chart_possible with a
\* modified_sql.
C24_RepairedBeforeExecution ==
    /\ \A i \in 1..Len(executed) :
          \E j \in 1..Len(calls) :
             /\ calls[j].stage = GeneratedAt(executed[i].stage)
             /\ calls[j].result = "ok"
             /\ calls[j].sql \notin {None, ""}
             /\ executed[i].given = Repaired[calls[j].sql]
             /\ executed[i].stage = "chart_exec" =>
                   /\ bar_chart_response.tag = "dict"
                   /\ bar_chart_response.chart_possible
                   /\ bar_chart_response.modified_sql = calls[j].sql
    /\ eq.pc \notin {"idle", "hung"} =>
          \E j \in 1..Len(calls) :
             /\ calls[j].stage = GeneratedAt(eq.stage)
             /\ calls[j].sql \notin {None, ""}
             /\ eq.sql_query = Repaired[calls[j].sql]

\* a turn has executed a main query and a chart query, both changed by the
\* repair
C24_Witness ==
    /\ Len(executed) = 2
    /\ executed[2].stage = "chart_exec"
    /\ \A i \in 1..2 :
          \E j \in 1..Len(calls) :
             /\ calls[j].stage = GeneratedAt(executed[i].stage)
             /\ executed[i].given # calls[j].sql

-----------------------------------------------------------------------------
(* Order of the stages *)

\* the position of each stage in the chain of awaits of a turn; the simple
\* path answers, compacts and persists in the places of the SQL path
StageRank ==
    [idle |-> 0, classify |-> 1, sql_gen |-> 2, execute |-> 3, fresh_gen |-> 4,
     re_execute |-> 5, summary |-> 6, simple |-> 6, chart |-> 7, chart_exec |-> 8,
     build |-> 9, compact |-> 10, simple_compact |-> 10, persist |-> 11,
     simple_persist |-> 11, done |-> 12, hung |-> 12]

ExecuteStages == {"execute", "re_execute", "chart_exec"}

\* an execute_query call has been made and has not returned to the turn
InFlight == eq.pc # "idle"

\* C25: the stages of a turn run one after another in the order
\* classification, SQL generation, query execution (with its regeneration),
\* summarization, chart analysis, compaction, persistence: the collaborator
\* calls made so far are in that order and all belong to stages before the
\* one the turn is at; an execute_query call is in flight only while the turn
\* is at the stage that made it, so no agent call or history write is made
\* during it; and the chart agent is called only after the summary agent
\* returned for a non-empty result.
C25_StagesInOrder ==
    /\ \A i \in 1..Len(calls) :
          /\ StageRank[calls[i].stage] < StageRank[pc] \/ pc = "hung"
          /\ i > 1 => StageRank[calls[i - 1].stage] < StageRank[calls[i].stage]
    /\ \A i \in 1..Len(executed) :
          /\ executed[i].stage \in ExecuteStages
          /\ \/ StageRank[executed[i].stage] < StageRank[pc]
             \/ executed[i].stage = pc /\ i = Len(executed) /\ eq.pc \in {"finally", "exit"}
          /\ i > 1 => StageRank[executed[i - 1].stage] < StageRank[executed[i].stage]
          /\ \E j \in 1..Len(calls) : StageRank[calls[j].stage] = StageRank[executed[i].stage] - 1
    /\ InFlight => pc = eq.stage /\ pc \in ExecuteStages
    /\ pc \notin ExecuteStages => ~InFlight
    /\ writes # <<>> => /\ Len(writes) = 1
                        /\ pc \in {"done", "hung"}
                        /\ \E i \in 1..Len(calls) : StageRank[calls[i].stage] = 10
    /\ \A i \in 1..Len(calls) :
          calls[i].stage = "chart" =>
             /\ i > 1
             /\ calls[i - 1].stage = "summary"
             /\ calls[i - 1].result = "ok"
             /\ data # <<>>

\* a turn has gone through every stage: classification, generation,
\* execution, summarization, chart analysis with its query, compaction and
\* the history write
C25_Witness ==
    /\ pc = "done"
    /\ Len(calls) = 5
    /\ calls[4].stage = "chart"
    /\ Len(executed) = 2
    /\ executed[2].stage = "chart_exec"
    /\ Len(writes) = 1

-----------------------------------------------------------------------------
(* Rejected requests *)

\* the request names an existing chat and gives no chat_id
NoChatId == pc # "idle" /\ request.chat_type = "existing" /\ request.chat_id \in {None, ""}

\* the database answered that the chat does not exist and the cache does not
\* hold it
NotFound ==
    /\ Len(session_ops) >= 2
    /\ session_ops[1] = StoreOp("chat_exists_in_db", request.chat_id, "ok")
    /\ session_ops[2] = StoreOp("chat_message_cache", request.chat_id, "absent")

\* the turn ended by raising HTTPException(status) and did nothing else
RejectedWith(status) ==
    /\ pc = "done"
    /\ outcome.kind = "raised"
    /\ outcome.exc.type = "HTTPException"
    /\ outcome.exc.status = status
    /\ calls = <<>>
    /\ executed = <<>>
    /\ eq = EqIdle
    /\ writes = <<>>
    /\ Loads = {}

\* C26: a turn on an existing chat without a chat_id is rejected with status
\* 400, and one whose chat_id is neither in the database nor in the cache
\* with status 404; in both cases no agent is called, no query is executed
\* and no history is loaded or written.
C26_Rejected ==
    /\ NoChatId => RejectedWith(400) /\ session_ops = <<>>
    /\ NotFound => RejectedWith(404) /\ Len(session_ops) = 2

\* a turn on a chat that is in neither place has been rejected
C26_Witness == NotFound /\ pc = "done" /\ request.chat_id = "c1"

-----------------------------------------------------------------------------
(* The chat id of a response *)

\* C27: every ChatResponse returned for a turn carries the chat id of the
\* session the turn ran on (for a new chat, the id create_new_chat returned),
\* whether the response reports success or failure.
C27_ResponseCarriesChatId ==
    outcome.kind = "returned" => outcome.response.chat_id = chat_id

-----------------------------------------------------------------------------
(* Messages after a regeneration *)

\* all_messages() of the regeneration call that preceded the successful
\* re-execution: it was given no history, so its own message only
FreshMessages ==
    LET f == CHOOSE i \in FreshCalls : TRUE IN <<"sql_agent: " \o calls[f].sql>>

\* C28: after a stale-column regeneration succeeded, the history passed to
\* the summary agent is the message list of the fresh generation, and the
\* messages saved for the next turn begin with it.
C28_FreshMessagesUsed ==
    ReExecuted # {} =>
        /\ \A i \in 1..Len(calls) :
              calls[i].stage = "summary" => calls[i].history = FreshMessages
        /\ \A i \in 1..Len(writes) :
              /\ Len(writes[i].all_messages) >= 1
              /\ SubSeq(writes[i].all_messages, 1, 1) = FreshMessages

-----------------------------------------------------------------------------
(* The saved context *)

\* C29: a turn that returns success=true and began with a non-empty
\* conversation context does not pass an empty message list to
\* update_chat_history.
C29_ContextNotEmptied ==
    (outcome.kind = "returned" /\ outcome.response.success /\ message_history # <<>>) =>
        \A i \in 1..Len(writes) : writes[i].all_messages # <<>>

-----------------------------------------------------------------------------
(* Failure of the history write *)

WriteFailed == writes # <<>> /\ writes[Len(writes)].result = "raise"

\* C30: when update_chat_history fails, the turn still returns the
\* success=true response it had built, unchanged, with its data, summary and
\* response_summary, on the SQL path and on the simple path.
C30_WriteFailureIgnored ==
    WriteFailed =>
        /\ pc = "done"
        /\ Len(writes) = 1
        /\ outcome = Returned(chat_response)
        /\ outcome.response.success
        /\ outcome.response.data = data
        /\ outcome.response.summary = summary_response.summary
        /\ outcome.response.response_summary = writes[1].response_summary
        /\ outcome.response.response_summary # None

\* the write failed at the end of a SQL turn that retrieved rows
C30_Witness == WriteFailed /\ data # <<>> /\ query_type = "sql"

-----------------------------------------------------------------------------
(* Agreement of the query and delete endpoints *)

\* handle_chat_query_service accepts cid as an existing chat on this store
Accepted(store, cid) ==
    ExistingSession(cid, Ok(cid \in store.db), cid \in store.cache, Ok(<<>>)).end.kind = "ok"

\* delete_chat answers that the chat does not exist
DeleteRefuses ==
    /\ del_call.pc = "check"
    /\ del_call'.pc = "done"
    /\ del_call'.response = DeleteNotFound(del_call.chat_id)

\* a query checks the existence of a chat that delete_chat reported deleted,
\* and the database answers
LookupOfDeleted ==
    /\ lookup' # lookup
    /\ lookup'.chat_id \in chat_store.deleted
    /\ lookup'.ops[1].result = "ok"

\* after delete_chat reported success for an id, a query on that id as an
\* existing chat is rejected with 404
DeletedIsRejected ==
    [][LookupOfDeleted =>
          lookup'.end = Raise(HTTPException(404, "Chat " \o lookup'.chat_id \o " not found"))]_vars

-----------------------------------------------------------------------------
(* The connection of update_alert_service *)

\* C32: once update_alert_service has returned or raised, the chats-database
\* connection it acquired is closed: no connection of an ended call remains
\* open.
C32_AlertConnectionReleased ==
    alert.pc \in {"idle", "done"} => (~alert.conn /\ chats_open = 0)

-----------------------------------------------------------------------------
(* The Grafana webhook *)

\* C33: for a webhook whose state is not 'alerting' the service looks up no
\* transaction details, calls no agent and inserts no analysis, and returns
\* a result whose status is 'ignored'.
C33_IgnoredWithoutEffect ==
    (hook.pc # "idle" /\ hook.request.state # "alerting") =>
        /\ hook.ops = <<>>
        /\ hook.pc \in {"respond", "done"}
        /\ hook.outcome.kind = "ok"
        /\ ValueOf(hook.outcome).status = "ignored"
        /\ hook.simple_response = NoSummary

\* a webhook in state 'ok' that names a transaction has been answered
C33_Witness ==
    /\ hook.pc = "done"
    /\ hook.request = [state |-> "ok", message |-> "tx-1"]
    /\ hook.outcome = Ok(IgnoredResult(hook.request))

\* C34: the grafana_webhook endpoint answers success=true exactly when the
\* service returned without raising, an ignored webhook included, and
\* success=false only when the service raised.
C34_SuccessUnlessRaised ==
    hook.pc = "done" => (hook.response.success <=> hook.outcome.kind = "ok")

====
